---- MODULE Spec2Model ----
(***************************************************************************)
(* A model of kheops-client: the DICOMweb command-line client in           *)
(* src/kheops_client/_client.py (class KheopsClient) and its helpers in    *)
(* src/kheops_client/_utils.py.                                            *)
(*                                                                         *)
(* Modelling conventions                                                   *)
(*  - A character string of the program (a UID, a modality code) is a      *)
(*    sequence of one-character strings, so that str.split and int() are   *)
(*    computed from the characters: "1.10" is <<"1", ".", "1", "0">>.      *)
(*  - A pydicom Dataset is a function from DICOM keywords to values.       *)
(*  - A pandas DataFrame is a record [columns, rows]: the column keywords  *)
(*    in order and the rows in order, each row a function from the column  *)
(*    keywords to values.                                                  *)
(*  - A call that raises is recorded by the name of the exception in the   *)
(*    field "raised"; OK means the call returned.                          *)
(***************************************************************************)
EXTENDS Integers, Sequences, FiniteSets, TLC

VARIABLES
    dry_run,    \* KheopsClient._dry_run, set by the constructor
    root,       \* what the output root path is: "absent", "dir" or "file"
    dirs,       \* the series sub-directories that exist under the output root
    files,      \* instance files: <<SeriesInstanceUID, SOPInstanceUID>> -> bytes
    csv,        \* CSV summaries in the output root: <<label, second>> -> table
    now,        \* the wall clock, in seconds
    ncalls,     \* how many client calls have been made
    last,       \* the record of the last call
    sortIn      \* the frame and column handed to sort_frame_by_uid

vars == <<dry_run, root, dirs, files, csv, now, ncalls, last, sortIn>>

----------------------------------------------------------------------------
(* Bounds of the model *)

\* the most components a UID of the sorting specification has
MaxComps == 2
\* the most rows of a frame handed to the sorting specification
MaxSortRows == 2
\* the most instances of a batch handed to _write_instances directly
MaxBatch == 2
\* the most operations called on the client in one run of the main specification
MaxCalls == 2
\* the last second the wall clock reaches
MaxTime == 1
\* the last row of a bulk download whose retrieve request can fail
MaxFail == 2
\* the most records of an answer or batch in which identifiers can be absent
MaxIncomplete == 2

----------------------------------------------------------------------------
(* Python values *)

\* Python's None: a value distinct from every character string
None == <<"None">>

\* the call returned (no exception)
OK == "ok"

\* no frame (a frame always has columns): the value of a call that raised or
\* that returned None
NoTable == [columns |-> <<>>, rows |-> <<>>]

Range(s) == {s[i] : i \in DOMAIN s}

Min(S) == CHOOSE x \in S : \A y \in S : x <= y

Front(s) == SubSeq(s, 1, Len(s) - 1)

Last(s) == s[Len(s)]

----------------------------------------------------------------------------
(* src/kheops_client/_utils.py: sort_frame_by_uid *)

DecimalDigits == {"0", "1", "2", "3", "4", "5", "6", "7", "8", "9"}

DigitValue(c) ==
    CASE c = "0" -> 0 [] c = "1" -> 1 [] c = "2" -> 2 [] c = "3" -> 3
      [] c = "4" -> 4 [] c = "5" -> 5 [] c = "6" -> 6 [] c = "7" -> 7
      [] c = "8" -> 8 [] c = "9" -> 9

\* uid.split("."): the pieces between the dots; "" splits into [""]
RECURSIVE split(_)
split(uid) ==
    IF \A i \in DOMAIN uid : uid[i] # "."
    THEN <<uid>>
    ELSE LET k == Min({i \in DOMAIN uid : uid[i] = "."})
         IN  <<SubSeq(uid, 1, k - 1)>> \o split(SubSeq(uid, k + 1, Len(uid)))

\* whether int(s) returns: over the characters of the model (digits, dots and
\* letters) that is a non-empty string of digits; otherwise int raises ValueError
IntParses(s) == Len(s) > 0 /\ \A i \in DOMAIN s : s[i] \in DecimalDigits

\* int(s) for a string of digits, base 10 (leading zeros are accepted)
RECURSIVE int(_)
int(s) == IF s = <<>> THEN 0 ELSE 10 * int(Front(s)) + DigitValue(Last(s))

\* a variant of uid_key that keeps the characters of the identifier as the key
\* (no conversion of the components to integers)
uid_key_chars(uid) ==
    IF uid = None
    THEN [raised |-> "AttributeError", key |-> <<>>]
    ELSE [raised |-> OK,
          key |-> [i \in DOMAIN uid |->
                      IF uid[i] \in DecimalDigits THEN DigitValue(uid[i]) + 1 ELSE 0]]

\* a variant of uid_key that maps None to the empty tuple, which sorts first
uid_key_none_first(uid) ==
    IF uid = None
    THEN [raised |-> OK, key |-> <<>>]
    ELSE LET parts == split(uid)
         IN  IF \A i \in DOMAIN parts : IntParses(parts[i])
             THEN [raised |-> OK, key |-> [i \in DOMAIN parts |-> int(parts[i])]]
             ELSE [raised |-> "TypeError", key |-> <<>>]

\* uid_key: None has no split (AttributeError); when a component does not
\* parse, the handler evaluates `"invalid literal for int()" in e` on the
\* exception object, which raises TypeError; otherwise the tuple of integers
uid_key(uid) ==
    IF uid = None
    THEN [raised |-> "AttributeError", key |-> <<>>]
    ELSE LET parts == split(uid)
         IN  IF \A i \in DOMAIN parts : IntParses(parts[i])
             THEN [raised |-> OK, key |-> [i \in DOMAIN parts |-> int(parts[i])]]
             ELSE [raised |-> "TypeError", key |-> <<>>]

\* Python's a < b on tuples of integers
RECURSIVE TupleLess(_, _)
TupleLess(a, b) ==
    IF a = <<>> THEN b # <<>>
    ELSE IF b = <<>> THEN FALSE
    ELSE IF a[1] # b[1] THEN a[1] < b[1]
    ELSE TupleLess(Tail(a), Tail(b))

\* the argsort of sort_values on the mapped keys: for the frame sizes of the
\* model (under 17 rows) numpy's quicksort is an insertion sort, which keeps
\* rows of equal key in their input order
RECURSIVE InsertRow(_, _, _)
InsertRow(sorted, row, by) ==
    IF sorted = <<>> THEN <<row>>
    ELSE IF TupleLess(uid_key(row[by]).key, uid_key(sorted[1][by]).key)
         THEN <<row>> \o sorted
         ELSE <<sorted[1]>> \o InsertRow(Tail(sorted), row, by)

RECURSIVE SortRows(_, _)
SortRows(rows, by) ==
    IF rows = <<>> THEN <<>>
    ELSE InsertRow(SortRows(Front(rows), by), Last(rows), by)

\* sort_frame_by_uid(df, by): series.apply(uid_key) raises at the first row
\* whose key raises; otherwise the rows in ascending order of their keys
sort_frame_by_uid(df, by) ==
    LET apply(bad) ==
            IF bad # {}
            THEN [raised |-> uid_key(df.rows[Min(bad)][by]).raised, df |-> NoTable]
            ELSE [raised |-> OK,
                  df |-> [columns |-> df.columns, rows |-> SortRows(df.rows, by)]]
    IN  apply({i \in DOMAIN df.rows : uid_key(df.rows[i][by]).raised # OK})

----------------------------------------------------------------------------
(* src/kheops_client/_utils.py: dicoms_to_frame *)

\* pydicom's Dataset.get(keyword, default=None)
Get(d, keyword) == IF keyword \in DOMAIN d THEN d[keyword] ELSE None

\* the keywords collected when keywords is None
DefaultKeywords ==
    <<"StudyInstanceUID", "SeriesInstanceUID", "SOPInstanceUID", "Modality">>

\* a variant of dicoms_to_frame that leaves out the datasets that lack one of
\* the keywords
dicoms_to_frame_complete(dicoms, keywords) ==
    LET complete == SelectSeq(dicoms, LAMBDA d : Range(keywords) \subseteq DOMAIN d)
    IN  [columns |-> keywords,
         rows |-> [i \in DOMAIN complete |->
                      [k \in Range(keywords) |-> Get(complete[i], k)]]]

\* dicoms_to_frame(dicoms, keywords): a dict with one list per keyword, each
\* with one entry per dataset (None where the dataset has no such element),
\* made a DataFrame with the keywords as columns. Without keywords the dict is
\* empty and the frame has no rows.
dicoms_to_frame(dicoms, keywords) ==
    LET framed(kw) ==
            [columns |-> kw,
             rows |-> IF kw = <<>> THEN <<>>
                      ELSE [i \in DOMAIN dicoms |->
                               [k \in Range(kw) |-> Get(dicoms[i], k)]]]
    IN  framed(IF keywords = None THEN DefaultKeywords ELSE keywords)

----------------------------------------------------------------------------
(* The filesystem under the output root *)

\* pathlib's Path.mkdir(parents=True, exist_ok=...) on a path that is absent,
\* a directory or a regular file: the kind of the path afterwards
mkdir(kind, exist_ok) ==
    CASE kind = "absent" -> [raised |-> OK, kind |-> "dir"]
      [] kind = "dir" -> [raised |-> IF exist_ok THEN OK ELSE "FileExistsError",
                          kind |-> "dir"]
      [] kind = "file" -> [raised |-> "FileExistsError", kind |-> "file"]

\* ensure_dir(path, forced): mkdir unless the path is a directory already;
\* is_dir is what the function returns
ensure_dir(kind, forced) ==
    LET made == IF kind # "dir" THEN mkdir(kind, forced)
                ELSE [raised |-> OK, kind |-> kind]
    IN  [raised |-> made.raised, kind |-> made.kind, is_dir |-> made.kind = "dir"]

\* KheopsClient._ensure_ouput_dir: RuntimeError when ensure_dir returns False
ensure_ouput_dir(kind, forced) ==
    LET e == ensure_dir(kind, forced)
    IN  IF e.raised # OK THEN [raised |-> e.raised, kind |-> e.kind]
        ELSE IF ~e.is_dir THEN [raised |-> "RuntimeError", kind |-> e.kind]
        ELSE [raised |-> OK, kind |-> e.kind]

\* what Dataset.save_as writes for an instance: a header, the identifying
\* elements and the bulk data, as a sequence of chunks
save_as(inst) ==
    <<"DICM", inst.StudyInstanceUID, inst.SeriesInstanceUID,
      inst.SOPInstanceUID, inst.Modality>> \o inst.PixelData

\* a variant of st_size that does not count the bulk data
st_size_header(bytes) == Min({Len(bytes), 5})

\* path.stat().st_size, in chunks
st_size(bytes) == Len(bytes)

----------------------------------------------------------------------------
(* src/kheops_client/_client.py: KheopsClient._write_instances *)

INSTANCE_KEYS ==
    <<"StudyInstanceUID", "SeriesInstanceUID", "SOPInstanceUID",
      "PatientID", "SeriesDate", "Modality">>

\* the target path of an instance below the output root:
\* <SeriesInstanceUID>/<SOPInstanceUID>.dcm
PathOf(inst) == <<inst.SeriesInstanceUID, inst.SOPInstanceUID>>

\* a variant of the loop of _write_instances that skips an existing file and
\* goes on with the next instance
RECURSIVE write_loop_skip(_, _, _, _)
write_loop_skip(instances, i, forced, st) ==
    IF i > Len(instances) THEN st
    ELSE LET inst == instances[i]
             path == PathOf(inst)
             bytes == save_as(inst)
         IN  IF path \notin DOMAIN st.files \/ forced
             THEN write_loop_skip(instances, i + 1, forced,
                     [st EXCEPT !.dirs = @ \cup {inst.SeriesInstanceUID},
                                !.files = (path :> bytes) @@ @,
                                !.file_sizes = (inst.SOPInstanceUID :> st_size(bytes)) @@ @,
                                !.log = Append(@, <<"save_as", path>>)])
             ELSE write_loop_skip(instances, i + 1, forced,
                     [st EXCEPT !.file_sizes =
                                    (inst.SOPInstanceUID :> st_size(st.files[path])) @@ @])

\* the loop of _write_instances from instance i on; st holds the directories,
\* the files, the file_sizes dict and the log of save_as calls so far, and
\* st.raised the exception that ended the loop, st.at the instance it hit
RECURSIVE write_loop(_, _, _, _)
write_loop(instances, i, forced, st) ==
    IF i > Len(instances) THEN st
    ELSE LET inst == instances[i]
             path == PathOf(inst)
             parent == ensure_dir(IF inst.SeriesInstanceUID \in st.dirs
                                  THEN "dir" ELSE "absent", forced)
             bytes == save_as(inst)
         IN  IF parent.raised # OK
             THEN [st EXCEPT !.raised = parent.raised, !.at = i]
             ELSE IF path \notin DOMAIN st.files \/ forced
             THEN write_loop(instances, i + 1, forced,
                     [st EXCEPT !.dirs = @ \cup {inst.SeriesInstanceUID},
                                !.files = (path :> bytes) @@ @,
                                !.file_sizes = (inst.SOPInstanceUID :> st_size(bytes)) @@ @,
                                !.log = Append(@, <<"save_as", path>>)])
             ELSE [st EXCEPT !.raised = "FileExistsError", !.at = i,
                             !.dirs = @ \cup {inst.SeriesInstanceUID}]

\* a variant of merge that keeps one row per key of file_sizes (the first)
merge_first(df, file_sizes) ==
    LET keep == {i \in DOMAIN df.rows :
                    /\ df.rows[i]["SOPInstanceUID"] \in DOMAIN file_sizes
                    /\ \A j \in 1..(i - 1) :
                          df.rows[j]["SOPInstanceUID"] # df.rows[i]["SOPInstanceUID"]}
        F[n \in 0..Len(df.rows)] ==
            IF n = 0 THEN <<>>
            ELSE IF n \in keep
                 THEN Append(F[n - 1], ("FileSize" :> file_sizes[df.rows[n]["SOPInstanceUID"]])
                                           @@ df.rows[n])
                 ELSE F[n - 1]
    IN  [columns |-> Append(df.columns, "FileSize"), rows |-> F[Len(df.rows)]]

\* df.merge(file_sizes, left_on="SOPInstanceUID", right_index=True): an inner
\* join that keeps the order of the left rows; file_sizes maps SOPInstanceUID
\* to FileSize
merge(df, file_sizes) ==
    LET F[n \in 0..Len(df.rows)] ==
            IF n = 0 THEN <<>>
            ELSE IF df.rows[n]["SOPInstanceUID"] \in DOMAIN file_sizes
                 THEN Append(F[n - 1], ("FileSize" :> file_sizes[df.rows[n]["SOPInstanceUID"]])
                                           @@ df.rows[n])
                 ELSE F[n - 1]
    IN  [columns |-> Append(df.columns, "FileSize"), rows |-> F[Len(df.rows)]]

\* the empty function: an empty dict, an output root without files
EmptyMap == [x \in {} |-> x]

\* the result of a call that raised before it touched the filesystem fs
Raised(fs, exc) ==
    [raised |-> exc, at |-> 0, df |-> NoTable, root |-> fs.root, dirs |-> fs.dirs,
     files |-> fs.files, log |-> <<>>]

\* the loop of _write_instances on the filesystem fs, from the first instance
write_all(fs, instances, forced) ==
    write_loop(instances, 1, forced,
        [raised |-> OK, at |-> 0, dirs |-> fs.dirs, files |-> fs.files,
         file_sizes |-> EmptyMap, log |-> <<>>])

\* the end of _write_instances: out is what _ensure_ouput_dir did, w what the
\* loop did, sorted the sorted frame
write_result(fs, sorted, out, w) ==
    IF out.raised # OK THEN Raised(fs, out.raised)
    ELSE [raised |-> w.raised, at |-> w.at,
          df |-> IF w.raised = OK THEN merge(sorted.df, w.file_sizes) ELSE NoTable,
          root |-> out.kind, dirs |-> w.dirs, files |-> w.files, log |-> w.log]

\* a variant of _write_instances without the dry-run return
write_instances_wet(dry, fs, instances, forced) ==
    LET sorted_then(sorted) ==
            IF sorted.raised # OK THEN Raised(fs, sorted.raised)
            ELSE write_result(fs, sorted, ensure_ouput_dir(fs.root, forced),
                              write_all(fs, instances, forced))
    IN  sorted_then(sort_frame_by_uid(dicoms_to_frame(instances, INSTANCE_KEYS),
                                      "SOPInstanceUID"))

\* _write_instances(instances, out_dir, forced) of a client with _dry_run = dry
\* on the filesystem fs = [root, dirs, files]: the exception raised (and the
\* instance it was raised at), the frame returned, the filesystem afterwards
\* and the save_as calls made
write_instances(dry, fs, instances, forced) ==
    LET sorted_then(sorted) ==
            IF sorted.raised # OK THEN Raised(fs, sorted.raised)
            ELSE IF dry THEN [Raised(fs, OK) EXCEPT !.df = sorted.df]
            ELSE write_result(fs, sorted, ensure_ouput_dir(fs.root, forced),
                              write_all(fs, instances, forced))
    IN  sorted_then(sort_frame_by_uid(dicoms_to_frame(instances, INSTANCE_KEYS),
                                      "SOPInstanceUID"))

----------------------------------------------------------------------------
(* The repository behind the DICOMweb client: two studies, three series and
   four instances, listed in the order in which the server answers. The
   server's order is not the numeric order of the identifiers. *)

StudyA == <<"1", ".", "9">>
StudyB == <<"1", ".", "1", "0">>
SeriesA1 == <<"2", ".", "1", "0">>
SeriesB1 == <<"2", ".", "9">>
SeriesB2 == <<"2", ".", "1", "1">>

\* the bulk data of an instance
BulkData == <<"px", "px">>

Repository ==
    << [StudyInstanceUID |-> StudyB, SeriesInstanceUID |-> SeriesB2,
        SOPInstanceUID |-> <<"3", ".", "1">>, Modality |-> <<"C", "T">>],
       [StudyInstanceUID |-> StudyB, SeriesInstanceUID |-> SeriesB1,
        SOPInstanceUID |-> <<"3", ".", "2">>, Modality |-> <<"M", "R">>],
       [StudyInstanceUID |-> StudyA, SeriesInstanceUID |-> SeriesA1,
        SOPInstanceUID |-> <<"3", ".", "1", "0">>, Modality |-> <<"C", "T">>],
       [StudyInstanceUID |-> StudyA, SeriesInstanceUID |-> SeriesA1,
        SOPInstanceUID |-> <<"3", ".", "9">>, Modality |-> <<"C", "T">> ] >>

\* an instance as the client holds it after a retrieve: with its bulk data, or
\* after retrieve_*_metadata and dicomize_json_results(meta_only=True) with
\* the empty placeholder b"" in its place
Materialize(header, meta_only) ==
    [StudyInstanceUID |-> header.StudyInstanceUID,
     SeriesInstanceUID |-> header.SeriesInstanceUID,
     SOPInstanceUID |-> header.SOPInstanceUID,
     Modality |-> header.Modality,
     PixelData |-> IF meta_only THEN <<>> ELSE BulkData]

----------------------------------------------------------------------------
(* The answers of the DICOMweb client *)

\* the None of an integer argument (limit, offset)
NoneInt == -1

\* the arguments of a search: the filter set, the fuzzy flag, the limit and
\* the offset
NoFilters == "None"

Request(search_filters, fuzzy, limit, offset) ==
    [search_filters |-> search_filters, fuzzy |-> fuzzy, limit |-> limit, offset |-> offset]

\* the defaults of the operations: search_filters=None, fuzzy=True,
\* limit=None, offset=None
DefaultRequest == Request(NoFilters, TRUE, NoneInt, NoneInt)

\* the page of a list of hits that limit and offset select
Page(hits, limit, offset) ==
    LET skip == IF offset = NoneInt THEN 0 ELSE offset
        upto == IF limit = NoneInt THEN Len(hits) ELSE Min({Len(hits), skip + limit})
    IN  SubSeq(hits, skip + 1, upto)

\* the studies in the server's order; which of them match a search depends on
\* the filters and the fuzzy flag
StudyList ==
    << [StudyInstanceUID |-> StudyB,
        ModalitiesInStudy |-> <<"MultiValue", <<"C", "T">>, <<"M", "R">>>>],
       [StudyInstanceUID |-> StudyA, ModalitiesInStudy |-> <<"C", "T">>] >>

\* the studies that can match a search: the sub-lists of StudyList
StudyAnswers ==
    {<<>>, <<StudyList[1]>>, <<StudyList[2]>>, StudyList}

\* the series in the server's order
SeriesList ==
    << [StudyInstanceUID |-> StudyB, SeriesInstanceUID |-> SeriesB2,
        Modality |-> <<"C", "T">>],
       [StudyInstanceUID |-> StudyB, SeriesInstanceUID |-> SeriesB1,
        Modality |-> <<"M", "R">>],
       [StudyInstanceUID |-> StudyA, SeriesInstanceUID |-> SeriesA1,
        Modality |-> <<"C", "T">>] >>

\* search_for_studies(search_filters, fuzzymatching, limit, offset): the page
\* of the studies that match (hits)
search_for_studies(req, hits) == Page(hits, req.limit, req.offset)

\* search_for_series(study_instance_uid, search_filters, fuzzymatching, limit,
\* offset): the page of the series of the study when they match the filters
\* (the study is in matched), else none
search_for_series(study_uid, req, matched) ==
    IF study_uid \in matched
    THEN Page(SelectSeq(SeriesList, LAMBDA x : x.StudyInstanceUID = study_uid),
              req.limit, req.offset)
    ELSE <<>>

\* retrieve_series / retrieve_series_metadata
retrieve_series(study_uid, series_uid, meta_only) ==
    LET hit == SelectSeq(Repository,
                   LAMBDA x : x.StudyInstanceUID = study_uid
                              /\ x.SeriesInstanceUID = series_uid)
    IN  [i \in DOMAIN hit |-> Materialize(hit[i], meta_only)]

\* retrieve_study / retrieve_study_metadata
retrieve_study(study_uid, meta_only) ==
    LET hit == SelectSeq(Repository, LAMBDA x : x.StudyInstanceUID = study_uid)
    IN  [i \in DOMAIN hit |-> Materialize(hit[i], meta_only)]

----------------------------------------------------------------------------
(* src/kheops_client/_client.py: the searches *)

STUDY_KEYS == <<"StudyInstanceUID", "PatientID", "StudyDate", "ModalitiesInStudy">>

SERIES_KEYS ==
    <<"StudyInstanceUID", "SeriesInstanceUID", "PatientID", "SeriesDate",
      "Modality", "RetrieveURL">>

RECURSIVE ConcatRows(_)
ConcatRows(dfs) == IF dfs = <<>> THEN <<>> ELSE dfs[1].rows \o ConcatRows(Tail(dfs))

\* pd.concat(dfs, axis=0) of frames with the same columns: ValueError ("No
\* objects to concatenate") for an empty list
concat(dfs) ==
    IF dfs = <<>> THEN [raised |-> "ValueError", df |-> NoTable]
    ELSE [raised |-> OK, df |-> [columns |-> dfs[1].columns, rows |-> ConcatRows(dfs)]]

\* KheopsClient._query_studies: the search with the caller's arguments, the
\* frame of the answer and its sort
query_studies(req, hits) ==
    LET sorted_then(s) ==
            [raised |-> s.raised, df |-> s.df, log |-> <<<<"search_for_studies", req>>>>]
    IN  sorted_then(sort_frame_by_uid(
                        dicoms_to_frame(search_for_studies(req, hits), STUDY_KEYS),
                        "StudyInstanceUID"))

\* a variant of sub_request that hands the caller's limit and offset on
sub_request_paged(req) == req

\* the arguments _query_series hands to _query_series_for_study: the caller's
\* filters and fuzzy flag, limit=None and offset=None
sub_request(req) == Request(req.search_filters, req.fuzzy, NoneInt, NoneInt)

\* KheopsClient._query_series_for_study
query_series_for_study(study_uid, req, matched) ==
    sort_frame_by_uid(dicoms_to_frame(search_for_series(study_uid, req, matched),
                                      SERIES_KEYS),
                      "SeriesInstanceUID")

\* the loop of _query_series over the studies from row i on: one sub-query
\* per study; st holds the frames and the log so far
RECURSIVE query_series_loop(_, _, _, _, _)
query_series_loop(rows, i, req, matched, st) ==
    IF i > Len(rows) THEN st
    ELSE LET study_uid == rows[i]["StudyInstanceUID"]
             log == Append(st.log, <<"search_for_series", study_uid, sub_request(req)>>)
             queried(ret) ==
                 IF ret.raised # OK
                 THEN [st EXCEPT !.raised = ret.raised, !.log = log]
                 ELSE query_series_loop(rows, i + 1, req, matched,
                          [st EXCEPT !.dfs = Append(@, ret.df), !.log = log])
         IN  queried(query_series_for_study(study_uid, sub_request(req), matched))

\* KheopsClient._query_series: the study search, one series search per study
\* found, pd.concat of the frames and the sort of the result
query_series(req, hits, matched) ==
    LET sorted_then(loop, sorted) ==
            [raised |-> sorted.raised, df |-> sorted.df, log |-> loop.log]
        concat_then(loop, all) ==
            IF all.raised # OK
            THEN [raised |-> all.raised, df |-> NoTable, log |-> loop.log]
            ELSE sorted_then(loop, sort_frame_by_uid(all.df, "SeriesInstanceUID"))
        loop_then(loop) ==
            IF loop.raised # OK
            THEN [raised |-> loop.raised, df |-> NoTable, log |-> loop.log]
            ELSE concat_then(loop, concat(loop.dfs))
        studies_then(studies) ==
            IF studies.raised # OK
            THEN [raised |-> studies.raised, df |-> NoTable, log |-> studies.log]
            ELSE loop_then(query_series_loop(studies.df.rows, 1, req, matched,
                               [raised |-> OK, dfs |-> <<>>, log |-> studies.log]))
    IN  studies_then(query_studies(req, hits))

----------------------------------------------------------------------------
(* src/kheops_client/_client.py: the operations of the client. Each takes the
   client's dry_run, the filesystem fs = [root, dirs, files, csv] and the
   clock, and yields the exception raised, the frame returned, the frame of
   the search step, the filesystem afterwards and the log. *)

\* the name of a CSV summary: <label>_<%Y-%m-%d_%H.%M.%S>.csv
CsvName(label, t) == <<label, t>>

\* a variant of _write_table that keeps a CSV summary that is already there
write_table_keep(dry, fs, t, df, label) ==
    LET ensured(out) ==
            IF out.raised # OK
            THEN [raised |-> out.raised, root |-> out.kind, csv |-> fs.csv, log |-> <<>>]
            ELSE [raised |-> OK, root |-> out.kind,
                  csv |-> fs.csv @@ (CsvName(label, t) :> df),
                  log |-> <<<<"to_csv", CsvName(label, t)>>>>]
    IN  IF dry
        THEN [raised |-> OK, root |-> fs.root, csv |-> fs.csv, log |-> <<>>]
        ELSE ensured(ensure_ouput_dir(fs.root, TRUE))

\* KheopsClient._write_table: nothing in dry-run mode; else the output root is
\* ensured and the frame written to <label>_<timestamp>.csv
write_table(dry, fs, t, df, label) ==
    LET ensured(out) ==
            IF out.raised # OK
            THEN [raised |-> out.raised, root |-> out.kind, csv |-> fs.csv, log |-> <<>>]
            ELSE [raised |-> OK, root |-> out.kind,
                  csv |-> (CsvName(label, t) :> df) @@ fs.csv,
                  log |-> <<<<"to_csv", CsvName(label, t)>>>>]
    IN  IF dry
        THEN [raised |-> OK, root |-> fs.root, csv |-> fs.csv, log |-> <<>>]
        ELSE ensured(ensure_ouput_dir(fs.root, TRUE))

\* the end of every operation: _write_table of the frame df, which the
\* operation returns; found is the frame of the search step, log the log so far
Finish(dry, fs, t, df, label, found, log) ==
    LET written(wt) ==
            [raised |-> wt.raised, df |-> IF wt.raised = OK THEN df ELSE NoTable,
             found |-> found, root |-> wt.root, dirs |-> fs.dirs, files |-> fs.files,
             csv |-> wt.csv, log |-> log \o wt.log]
    IN  written(write_table(dry, fs, t, df, label))

\* an operation that ends with the exception exc, the filesystem being fs
Abort(fs, exc, found, log) ==
    [raised |-> exc, df |-> NoTable, found |-> found, root |-> fs.root,
     dirs |-> fs.dirs, files |-> fs.files, csv |-> fs.csv, log |-> log]

\* an operation that returns None without an exception
ReturnNone(fs, found, log) == Abort(fs, OK, found, log)

\* KheopsClient.list_studies
list_studies(dry, fs, t, req, hits) ==
    LET queried(q) ==
            IF q.raised # OK THEN Abort(fs, q.raised, NoTable, q.log)
            ELSE Finish(dry, fs, t, q.df, "available_studies", q.df, q.log)
    IN  queried(query_studies(req, hits))

\* KheopsClient.list_series
list_series(dry, fs, t, req, hits, matched) ==
    LET queried(q) ==
            IF q.raised # OK THEN Abort(fs, q.raised, NoTable, q.log)
            ELSE Finish(dry, fs, t, q.df, "available_series", q.df, q.log)
    IN  queried(query_series(req, hits, matched))

\* the filesystem after _write_instances returned or raised w
After(fs, w) == [root |-> w.root, dirs |-> w.dirs, files |-> w.files, csv |-> fs.csv]

\* a variant of downloaded that writes the table of what _write_instances
\* returned before it looks at the exception
downloaded_table_first(dry, fs, t, w, label, log) ==
    LET tabled(r) ==
            IF w.raised # OK THEN [r EXCEPT !.raised = w.raised, !.df = NoTable]
            ELSE r
    IN  tabled(Finish(dry, After(fs, w), t, w.df, label, NoTable, log \o w.log))

\* the end of download_series and download_study: w is what _write_instances
\* did, log the retrieve request
downloaded(dry, fs, t, w, label, log) ==
    IF w.raised # OK THEN Abort(After(fs, w), w.raised, NoTable, log \o w.log)
    ELSE Finish(dry, After(fs, w), t, w.df, label, NoTable, log \o w.log)

\* KheopsClient.download_series; fail = 1 when the retrieve request fails
download_series(dry, fs, t, study_uid, series_uid, meta_only, forced, fail) ==
    IF fail = 1
    THEN Abort(fs, "HTTPError", NoTable, <<<<"retrieve_series", study_uid, series_uid>>>>)
    ELSE downloaded(dry, fs, t,
             write_instances(dry, fs, retrieve_series(study_uid, series_uid, meta_only),
                             forced),
             "downloaded_series_instances",
             <<<<"retrieve_series", study_uid, series_uid>>>>)

\* KheopsClient.download_study; fail = 1 when the retrieve request fails
download_study(dry, fs, t, study_uid, meta_only, forced, fail) ==
    IF fail = 1
    THEN Abort(fs, "HTTPError", NoTable, <<<<"retrieve_study", study_uid>>>>)
    ELSE downloaded(dry, fs, t,
             write_instances(dry, fs, retrieve_study(study_uid, meta_only), forced),
             "downloaded_study_instances",
             <<<<"retrieve_study", study_uid>>>>)

\* a variant of download_loop that goes on with the next row when the
\* retrieve or the write of a row fails
RECURSIVE download_loop_continue(_, _, _, _, _, _, _, _)
download_loop_continue(dry, rows, i, series, meta_only, forced, fail, st) ==
    IF i > Len(rows) THEN st
    ELSE LET study_uid == rows[i]["StudyInstanceUID"]
             dicoms == IF series
                       THEN retrieve_series(study_uid, rows[i]["SeriesInstanceUID"], meta_only)
                       ELSE retrieve_study(study_uid, meta_only)
             log == Append(st.log,
                        IF series
                        THEN <<"retrieve_series", study_uid, rows[i]["SeriesInstanceUID"]>>
                        ELSE <<"retrieve_study", study_uid>>)
             written(w) ==
                 IF w.raised # OK
                 THEN download_loop_continue(dry, rows, i + 1, series, meta_only, forced,
                          fail, [st EXCEPT !.fs = After(st.fs, w), !.log = log \o w.log])
                 ELSE download_loop_continue(dry, rows, i + 1, series, meta_only, forced,
                          fail, [st EXCEPT !.fs = After(st.fs, w), !.dfs = Append(@, w.df),
                                           !.log = log \o w.log])
         IN  IF i = fail
             THEN download_loop_continue(dry, rows, i + 1, series, meta_only, forced,
                      fail, [st EXCEPT !.log = log])
             ELSE written(write_instances(dry, st.fs, dicoms, forced))

\* the loop of search_and_download_studies (series = FALSE) and of
\* search_and_download_series (series = TRUE) over the rows of the search
\* frame, from row i on: one retrieve and one _write_instances per row; st
\* holds the filesystem, the frames and the log so far. The retrieve request
\* of row fail fails (of none when fail = 0), and its exception ends the loop
RECURSIVE download_loop(_, _, _, _, _, _, _, _)
download_loop(dry, rows, i, series, meta_only, forced, fail, st) ==
    IF i > Len(rows) THEN st
    ELSE LET study_uid == rows[i]["StudyInstanceUID"]
             dicoms == IF series
                       THEN retrieve_series(study_uid, rows[i]["SeriesInstanceUID"], meta_only)
                       ELSE retrieve_study(study_uid, meta_only)
             log == Append(st.log,
                        IF series
                        THEN <<"retrieve_series", study_uid, rows[i]["SeriesInstanceUID"]>>
                        ELSE <<"retrieve_study", study_uid>>)
             written(w) ==
                 IF w.raised # OK
                 THEN [st EXCEPT !.raised = w.raised, !.fs = After(st.fs, w),
                                 !.log = log \o w.log]
                 ELSE download_loop(dry, rows, i + 1, series, meta_only, forced, fail,
                          [st EXCEPT !.fs = After(st.fs, w), !.dfs = Append(@, w.df),
                                     !.log = log \o w.log])
         IN  IF i = fail
             THEN [st EXCEPT !.raised = "HTTPError", !.log = log]
             ELSE written(write_instances(dry, st.fs, dicoms, forced))

\* the loop of the bulk downloads from the first row of the search frame q.df
download_all(dry, fs, q, series, meta_only, forced, fail) ==
    download_loop(dry, q.df.rows, 1, series, meta_only, forced, fail,
        [raised |-> OK, fs |-> fs, dfs |-> <<>>, log |-> q.log])

\* a variant of the end of the bulk downloads that returns the concatenation
\* of the per-row frames as it is
download_sorted_asis(dry, t, q, loop, sorted, label) ==
    Finish(dry, loop.fs, t,
           [columns |-> loop.dfs[1].columns, rows |-> ConcatRows(loop.dfs)],
           label, q.df, loop.log)

\* the end of the bulk downloads: the sort of the concatenated frame all.df by
\* SOPInstanceUID and _write_table
download_sorted(dry, t, q, loop, sorted, label) ==
    IF sorted.raised # OK THEN Abort(loop.fs, sorted.raised, q.df, loop.log)
    ELSE Finish(dry, loop.fs, t, sorted.df, label, q.df, loop.log)

\* pd.concat of the frames of the loop, then the sort and the table
download_concat(dry, t, q, loop, all, label) ==
    IF all.raised # OK THEN Abort(loop.fs, all.raised, q.df, loop.log)
    ELSE download_sorted(dry, t, q, loop,
                         sort_frame_by_uid(all.df, "SOPInstanceUID"), label)

\* what follows the loop of the bulk downloads
download_looped(dry, t, q, loop, label) ==
    IF loop.raised # OK THEN Abort(loop.fs, loop.raised, q.df, loop.log)
    ELSE download_concat(dry, t, q, loop, concat(loop.dfs), label)

\* a variant of download_found without the return for an empty search frame
download_found_no_return(dry, fs, t, q, series, meta_only, forced, fail, label) ==
    IF q.raised # OK THEN Abort(fs, q.raised, NoTable, q.log)
    ELSE download_looped(dry, t, q,
                         download_all(dry, fs, q, series, meta_only, forced, fail), label)

\* search_and_download_studies and search_and_download_series after their
\* search step returned or raised q: return None for an empty frame; else the
\* loop over the rows, pd.concat of the frames, the sort by SOPInstanceUID and
\* _write_table
download_found(dry, fs, t, q, series, meta_only, forced, fail, label) ==
    IF q.raised # OK THEN Abort(fs, q.raised, NoTable, q.log)
    ELSE IF q.df.rows = <<>> THEN ReturnNone(fs, q.df, q.log)
    ELSE download_looped(dry, t, q,
                         download_all(dry, fs, q, series, meta_only, forced, fail), label)

\* KheopsClient.search_and_download_studies
search_and_download_studies(dry, fs, t, req, hits, meta_only, forced, fail) ==
    download_found(dry, fs, t, query_studies(req, hits), FALSE, meta_only, forced, fail,
                   "downloaded_study_instances")

\* KheopsClient.search_and_download_series
search_and_download_series(dry, fs, t, req, hits, matched, meta_only, forced, fail) ==
    download_found(dry, fs, t, query_series(req, hits, matched), TRUE, meta_only, forced,
                   fail,
                   "downloaded_series_instances")

----------------------------------------------------------------------------
(* src/kheops_client/_client.py: the construction of a client. A string is a
   sequence of characters, the empty string the empty sequence; the
   environment is the value of ACCESS_TOKEN, None when it is not set. *)

\* no client constructed
NoClient == [token |-> None, dry_run |-> FALSE, authorization |-> None]

\* Python's `not token` for None or a string
Falsy(token) == token = None \/ token = <<>>

\* a variant of _check_token that consults the environment for an empty token
\* as well
check_token_any(token, environ) ==
    LET checked(tok, log) ==
            IF Falsy(tok)
            THEN [raised |-> "SystemExit", code |-> 1, token |-> None,
                  log |-> log \o <<<<"print", "ERROR: No access token">>, <<"exit", 1>>>>]
            ELSE [raised |-> OK, code |-> 0, token |-> tok, log |-> log]
    IN  IF Falsy(token)
        THEN checked(environ, <<<<"getenv", "ACCESS_TOKEN">>>>)
        ELSE checked(token, <<>>)

\* KheopsClient._check_token: os.getenv when token is None; print and exit(1)
\* when the token is None or empty
check_token(token, environ) ==
    LET checked(tok, log) ==
            IF Falsy(tok)
            THEN [raised |-> "SystemExit", code |-> 1, token |-> None,
                  log |-> log \o <<<<"print", "ERROR: No access token">>, <<"exit", 1>>>>]
            ELSE [raised |-> OK, code |-> 0, token |-> tok, log |-> log]
    IN  IF token = None
        THEN checked(environ, <<<<"getenv", "ACCESS_TOKEN">>>>)
        ELSE checked(token, <<>>)

\* KheopsClient.__init__: the token is checked first; then the fields are set
\* and the DICOMwebClient created with the Authorization header
init(access_token, environ, dry) ==
    LET checked(c) ==
            IF c.raised # OK
            THEN [raised |-> c.raised, code |-> c.code, client |-> NoClient, log |-> c.log]
            ELSE [raised |-> OK, code |-> 0,
                  client |-> [token |-> c.token, dry_run |-> dry,
                              authorization |-> <<"B", "e", "a", "r", "e", "r", " ">> \o c.token],
                  log |-> Append(c.log, <<"DICOMwebClient", c.token>>)]
    IN  checked(check_token(access_token, environ))

----------------------------------------------------------------------------
(* src/kheops_client/_client.py: KheopsClient._print_table_summary. A
   multi-valued element (pydicom's MultiValue) is the sequence of its values
   after the tag "MultiValue"; a scalar is the string itself. *)

MultiValue(values) == <<"MultiValue">> \o values

IsMultiValue(x) == x # <<>> /\ x[1] = "MultiValue"

\* df.get(name, empty): the column, or an empty Series
Column(df, name) ==
    IF name \in Range(df.columns)
    THEN [i \in DOMAIN df.rows |-> df.rows[i][name]]
    ELSE <<>>

\* Series.nunique(): the number of distinct values, None not counted
nunique(col) == Cardinality(Range(col) \ {None})

\* Series.sum()
RECURSIVE sum(_)
sum(col) == IF col = <<>> THEN 0 ELSE col[1] + sum(Tail(col))

\* _map: a string, or a value that is not iterable, becomes a tuple of one;
\* a MultiValue the tuple of its values
map_modality(x) == IF IsMultiValue(x) THEN Tail(x) ELSE <<x>>

\* the order of the characters
Alphabet == <<"A", "C", "M", "R", "T", "X">>

ord(c) == CHOOSE i \in DOMAIN Alphabet : Alphabet[i] = c

\* Python's a < b on strings
RECURSIVE StrLess(_, _)
StrLess(a, b) ==
    IF a = <<>> THEN b # <<>>
    ELSE IF b = <<>> THEN FALSE
    ELSE IF a[1] # b[1] THEN ord(a[1]) < ord(b[1])
    ELSE StrLess(Tail(a), Tail(b))

\* sorted() of a set of strings
RECURSIVE sorted(_)
sorted(S) ==
    IF S = {} THEN <<>>
    ELSE LET least == CHOOSE a \in S : \A b \in S \ {a} : StrLess(a, b)
         IN  <<least>> \o sorted(S \ {least})

\* a variant of modalities_of that looks at the Modality column only
modalities_of_rows(df) == Range(Column(df, "Modality"))

\* the set of modalities: the unique values of the Modality column and the
\* values of the flattened ModalitiesInStudy column
modalities_of(df) ==
    Range(Column(df, "Modality"))
        \cup UNION {Range(map_modality(x)) : x \in Range(Column(df, "ModalitiesInStudy"))}

\* the lines printed after "Summary:": the number of studies always, the other
\* lines when their value is positive or not empty. sorted() raises TypeError
\* for None among strings, join for None alone (after the other lines)
summary_lines(n_studies, n_series, n_instances, file_sizes, modalities) ==
    LET counts ==
            <<<<"Total number of studies", n_studies>>>>
            \o (IF n_series > 0 THEN <<<<"Total number of series", n_series>>>> ELSE <<>>)
            \o (IF n_instances > 0
                THEN <<<<"Total number of instances", n_instances>>>> ELSE <<>>)
            \o (IF file_sizes > 0 THEN <<<<"Total data size", file_sizes>>>> ELSE <<>>)
    IN  IF None \in modalities /\ modalities # {None}
        THEN [raised |-> "TypeError", lines |-> <<>>]
        ELSE IF modalities = {None}
        THEN [raised |-> "TypeError", lines |-> counts]
        ELSE IF modalities # {}
        THEN [raised |-> OK, lines |-> Append(counts, <<"Modalities", sorted(modalities)>>)]
        ELSE [raised |-> OK, lines |-> counts]

\* KheopsClient._print_table_summary(df)
print_table_summary(df) ==
    summary_lines(nunique(Column(df, "StudyInstanceUID")),
                  nunique(Column(df, "SeriesInstanceUID")),
                  nunique(Column(df, "SOPInstanceUID")),
                  sum(Column(df, "FileSize")),
                  modalities_of(df))

----------------------------------------------------------------------------
(* Call records *)

\* the filesystem as a call finds it
NoFS == [root |-> "absent", dirs |-> {}, files |-> EmptyMap, csv |-> EmptyMap]

\* no call made yet. A call record holds the operation and its arguments
\* (instances: the instances the call hands to _write_instances; studies,
\* matched: what the server answers to the searches), the filesystem before the call,
\* the exception raised, the frame returned (NoTable when the call raised or
\* returned None), the frame of the search step (found) and the requests and
\* writes made, in order (log)
NoCall ==
    [op |-> "none", instances |-> <<>>, forced |-> FALSE, meta_only |-> FALSE,
     req |-> DefaultRequest, studies |-> <<>>, matched |-> {}, before |-> NoFS,
     access_token |-> None, environ |-> None, client |-> NoClient, code |-> 0,
     keywords |-> None, fail |-> 0,
     raised |-> OK, at |-> 0, df |-> NoTable, found |-> NoTable, log |-> <<>>]

FS == [root |-> root, dirs |-> dirs, files |-> files, csv |-> csv]

\* no frame handed to sort_frame_by_uid
NoSort == [df |-> NoTable, by |-> "SOPInstanceUID"]

----------------------------------------------------------------------------
(* Specification SortSpec: sort_frame_by_uid applied to one frame *)

\* the components UIDs of the sorting specification are made of: numbers whose
\* numeric and character orders differ, a number with a leading zero, and a
\* component that is no number
Components == {<<"2">>, <<"1", "0">>, <<"0", "2">>, <<"a">>}

RECURSIVE Join(_)
Join(parts) ==
    IF Len(parts) = 1 THEN parts[1]
    ELSE parts[1] \o <<".">> \o Join(Tail(parts))

SortUIDs ==
    {Join(parts) : parts \in UNION {[1..n -> Components] : n \in 1..MaxComps}}
        \cup {None}

\* the frames: a SOPInstanceUID column, and a PatientID column that tells the
\* rows apart
RowTags == <<<<"p", "1">>, <<"p", "2">>, <<"p", "3">>, <<"p", "4">>>>

SortFrames ==
    {[columns |-> <<"SOPInstanceUID", "PatientID">>,
      rows |-> [i \in DOMAIN uids |-> [SOPInstanceUID |-> uids[i],
                                PatientID |-> RowTags[((i - 1) % Len(RowTags)) + 1]]]] :
        uids \in UNION {[1..n -> SortUIDs] : n \in 0..MaxSortRows}}

SortInit ==
    /\ dry_run = FALSE
    /\ root = "absent"
    /\ dirs = {}
    /\ files = EmptyMap
    /\ csv = EmptyMap
    /\ now = 0
    /\ ncalls = 0
    /\ last = NoCall
    /\ sortIn \in [df : SortFrames, by : {"SOPInstanceUID"}]

SortCall ==
    /\ last.op = "none"
    /\ LET r == sort_frame_by_uid(sortIn.df, sortIn.by)
       IN  last' = [NoCall EXCEPT !.op = "sort_frame_by_uid",
                                  !.raised = r.raised, !.df = r.df]
    /\ UNCHANGED <<dry_run, root, dirs, files, csv, now, ncalls, sortIn>>

SortNext == SortCall

SortSpec == SortInit /\ [][SortNext]_vars

----------------------------------------------------------------------------
(* Specification Spec: the operations of KheopsClient, called one after the
   other (the program is single-threaded) by clients constructed with either
   value of dry_run, on an output root that starts absent, as an empty
   directory, or as a regular file; the wall clock advances between calls *)

Init ==
    /\ dry_run \in BOOLEAN
    /\ root \in {"absent", "dir", "file"}
    /\ dirs = {}
    /\ files = EmptyMap
    /\ csv = EmptyMap
    /\ now = 0
    /\ ncalls = 0
    /\ last = NoCall
    /\ sortIn = NoSort

\* the effect of an operation that ended as r on the state, rec being the
\* operation and its arguments
Effect(r, rec) ==
    /\ root' = r.root
    /\ dirs' = r.dirs
    /\ files' = r.files
    /\ csv' = r.csv
    /\ ncalls' = ncalls + 1
    /\ last' = [rec EXCEPT !.before = FS, !.raised = r.raised, !.df = r.df,
                           !.found = r.found, !.log = r.log]
    /\ UNCHANGED <<dry_run, now, sortIn>>

\* the instances the loop of a bulk download retrieves for the rows of the
\* search frame found, in the order of the rows
RECURSIVE retrieved_from(_, _, _, _)
retrieved_from(rows, i, series, meta_only) ==
    IF i > Len(rows) THEN <<>>
    ELSE (IF series
          THEN retrieve_series(rows[i]["StudyInstanceUID"],
                               rows[i]["SeriesInstanceUID"], meta_only)
          ELSE retrieve_study(rows[i]["StudyInstanceUID"], meta_only))
         \o retrieved_from(rows, i + 1, series, meta_only)

retrieved(found, series, meta_only) == retrieved_from(found.rows, 1, series, meta_only)

\* the studies of an answer of search_for_studies
StudiesOf(answer) == {answer[i].StudyInstanceUID : i \in DOMAIN answer}

\* the searches the operations are called with: the defaults, and a search
\* with filters, without fuzzy matching, for the first study that matches
ClientRequests == {DefaultRequest, Request("PatientID", FALSE, 1, NoneInt)}

ListStudies ==
    /\ ncalls < MaxCalls
    /\ \E req \in ClientRequests, hits \in StudyAnswers :
         \E r \in {list_studies(dry_run, FS, now, req, hits)} :
            Effect(r, [NoCall EXCEPT !.op = "list_studies", !.req = req,
                                     !.studies = search_for_studies(req, hits)])

ListSeries ==
    /\ ncalls < MaxCalls
    /\ \E req \in ClientRequests, hits \in StudyAnswers :
         \E matched \in SUBSET StudiesOf(search_for_studies(req, hits)) :
            \E r \in {list_series(dry_run, FS, now, req, hits, matched)} :
               Effect(r, [NoCall EXCEPT !.op = "list_series", !.req = req,
                                        !.studies = search_for_studies(req, hits),
                                        !.matched = matched])

DownloadSeries ==
    /\ ncalls < MaxCalls
    /\ \E i \in DOMAIN SeriesList, meta_only \in BOOLEAN, forced \in BOOLEAN,
          fail \in 0..1 :
         \E r \in {download_series(dry_run, FS, now, SeriesList[i].StudyInstanceUID,
                                   SeriesList[i].SeriesInstanceUID, meta_only, forced,
                                   fail)} :
            Effect(r, [NoCall EXCEPT !.op = "download_series",
                          !.instances = retrieve_series(SeriesList[i].StudyInstanceUID,
                                            SeriesList[i].SeriesInstanceUID, meta_only),
                          !.meta_only = meta_only, !.forced = forced, !.fail = fail])

DownloadStudy ==
    /\ ncalls < MaxCalls
    /\ \E i \in DOMAIN StudyList, meta_only \in BOOLEAN, forced \in BOOLEAN,
          fail \in 0..1 :
         \E r \in {download_study(dry_run, FS, now, StudyList[i].StudyInstanceUID,
                                  meta_only, forced, fail)} :
            Effect(r, [NoCall EXCEPT !.op = "download_study",
                          !.instances = retrieve_study(StudyList[i].StudyInstanceUID, meta_only),
                          !.meta_only = meta_only, !.forced = forced, !.fail = fail])

SearchAndDownloadStudies ==
    /\ ncalls < MaxCalls
    /\ \E req \in ClientRequests, hits \in StudyAnswers,
          meta_only \in BOOLEAN, forced \in BOOLEAN, fail \in 0..MaxFail :
         \E r \in {search_and_download_studies(dry_run, FS, now, req, hits,
                                               meta_only, forced, fail)} :
            /\ fail <= Len(r.found.rows)
            /\ Effect(r, [NoCall EXCEPT !.op = "search_and_download_studies",
                             !.instances = retrieved(r.found, FALSE, meta_only),
                             !.req = req, !.studies = search_for_studies(req, hits),
                             !.meta_only = meta_only, !.forced = forced, !.fail = fail])

SearchAndDownloadSeries ==
    /\ ncalls < MaxCalls
    /\ \E req \in ClientRequests, hits \in StudyAnswers,
          meta_only \in BOOLEAN, forced \in BOOLEAN, fail \in 0..MaxFail :
         \E matched \in SUBSET StudiesOf(search_for_studies(req, hits)) :
            \E r \in {search_and_download_series(dry_run, FS, now, req, hits, matched,
                                                 meta_only, forced, fail)} :
               /\ fail <= Len(r.found.rows)
               /\ Effect(r, [NoCall EXCEPT !.op = "search_and_download_series",
                                !.instances = retrieved(r.found, TRUE, meta_only),
                                !.req = req, !.studies = search_for_studies(req, hits),
                                !.matched = matched,
                                !.meta_only = meta_only, !.forced = forced,
                                !.fail = fail])

\* a second passes
Tick ==
    /\ now < MaxTime
    /\ now' = now + 1
    /\ UNCHANGED <<dry_run, root, dirs, files, csv, ncalls, last, sortIn>>

Next ==
    \/ ListStudies
    \/ ListSeries
    \/ DownloadSeries
    \/ DownloadStudy
    \/ SearchAndDownloadStudies
    \/ SearchAndDownloadSeries
    \/ Tick

Spec == Init /\ [][Next]_vars

----------------------------------------------------------------------------
(* Properties of sort_frame_by_uid, checked under SortSpec *)

\* the tuple of integer components of an identifier whose components all parse
NumTuple(uid) == LET parts == split(uid) IN [i \in DOMAIN parts |-> int(parts[i])]

\* a is lexicographically less than b: they agree up to a place where a ends
\* and b goes on, or where a's component is the smaller
LexLess(a, b) ==
    \E k \in 1..(Len(b)) :
        /\ \A i \in 1..(k - 1) : i <= Len(a) /\ a[i] = b[i]
        /\ Len(a) >= k - 1
        /\ (Len(a) = k - 1 \/ a[k] < b[k])

AllParse(uid) == uid # None /\ \A i \in DOMAIN split(uid) : IntParses(split(uid)[i])

Count(s, x) == Cardinality({i \in DOMAIN s : s[i] = x})

\* the rows of out are the rows of in, each as often
SameRows(in, out) ==
    /\ Len(in) = Len(out)
    /\ \A i \in DOMAIN in : Count(in, in[i]) = Count(out, in[i])

Sorted == last.op = "sort_frame_by_uid"

SortedUID(i) == last.df.rows[i][sortIn.by]

\* C8: When every identifier of the frame has components that all parse as
\* integers, sort_frame_by_uid returns the rows of the frame ordered by the
\* tuples of integer components: a row whose tuple is lexicographically less
\* than another row's is placed before it, so that of two rows with different
\* tuples the one placed first is the one with the lesser tuple. (Rows with
\* equal identifiers map to equal keys, uid_key being a function.)
C8_NumericTupleOrder ==
    (Sorted /\ \A i \in DOMAIN sortIn.df.rows : AllParse(sortIn.df.rows[i][sortIn.by]))
        => /\ last.raised = OK
           /\ SameRows(sortIn.df.rows, last.df.rows)
           /\ \A i, j \in DOMAIN last.df.rows :
                 LexLess(NumTuple(SortedUID(i)), NumTuple(SortedUID(j))) => i < j

\* C8 witness: the frame ("10", "2") has been sorted into ("2", "10"), the
\* order of the integers and not of the characters
C8_Witness ==
    /\ Sorted
    /\ last.raised = OK
    /\ Len(sortIn.df.rows) = 2
    /\ sortIn.df.rows[1][sortIn.by] = <<"1", "0">>
    /\ sortIn.df.rows[2][sortIn.by] = <<"2">>
    /\ SortedUID(1) = <<"2">>
    /\ SortedUID(2) = <<"1", "0">>

\* some identifier of the frame is a string with a component that does not
\* parse as an integer
SomeNonNumeric ==
    /\ \A i \in DOMAIN sortIn.df.rows : sortIn.df.rows[i][sortIn.by] # None
    /\ \E i \in DOMAIN sortIn.df.rows : ~AllParse(sortIn.df.rows[i][sortIn.by])

\* C9 (as claimed): when a component of an identifier fails integer
\* conversion the sort does not raise, and sort_frame_by_uid returns a frame
\* that contains every input row.
C9_FallbackDoesNotRaise ==
    (Sorted /\ SomeNonNumeric)
        => /\ last.raised = OK
           /\ SameRows(sortIn.df.rows, last.df.rows)

----------------------------------------------------------------------------
(* Specification WriterSpec: calls of KheopsClient._write_instances, by
   clients constructed with either value of dry_run, on an output root that
   starts absent, as an empty directory, or as a regular file *)

WriterInit ==
    /\ dry_run \in BOOLEAN
    /\ root \in {"absent", "dir", "file"}
    /\ dirs = {}
    /\ files = EmptyMap
    /\ csv = EmptyMap
    /\ now = 0
    /\ ncalls = 0
    /\ last = NoCall
    /\ sortIn = NoSort

\* the instances of the batches: three instances of the repository, of two
\* series, with their bulk data or without
BatchDatasets(meta_only) ==
    {Materialize(Repository[i], meta_only) : i \in DOMAIN Repository \ {1}}

\* the batches: what one retrieve call returns (all instances with their bulk
\* data, or all without), in any order and possibly with repetitions; a
\* retrieved study or series holds at least one instance
Batches(meta_only) == UNION {[1..n -> BatchDatasets(meta_only)] : n \in 1..MaxBatch}

WriteInstances ==
    \E meta_only \in BOOLEAN, forced \in BOOLEAN :
      \E instances \in Batches(meta_only) :
        \E r \in {write_instances(dry_run, FS, instances, forced)} :
            /\ root' = r.root
            /\ dirs' = r.dirs
            /\ files' = r.files
            /\ last' = [NoCall EXCEPT !.op = "_write_instances",
                                      !.instances = instances,
                                      !.forced = forced,
                                      !.before = FS,
                                      !.raised = r.raised,
                                      !.at = r.at,
                                      !.df = r.df,
                                      !.log = r.log]
            /\ UNCHANGED <<dry_run, csv, now, ncalls, sortIn>>

WriterNext == WriteInstances

WriterSpec == WriterInit /\ [][WriterNext]_vars

----------------------------------------------------------------------------
(* Properties of the Output Writer (_write_instances), checked under
   WriterSpec *)

Paths(instances) == {PathOf(instances[i]) : i \in DOMAIN instances}

\* the instances of a batch have pairwise distinct series/instance identifiers
Distinct(instances) ==
    \A i, j \in DOMAIN instances : PathOf(instances[i]) = PathOf(instances[j]) => i = j

\* the last call is a write by a client that is not in dry-run mode
Wrote(call) == call.op = "_write_instances" /\ ~dry_run

\* the row of a frame for an instance
RowsOf(df, inst) ==
    {i \in DOMAIN df.rows : df.rows[i]["SOPInstanceUID"] = inst.SOPInstanceUID}

Collides(call, i) ==
    \/ PathOf(call.instances[i]) \in DOMAIN call.before.files
    \/ \E j \in 1..(i - 1) : PathOf(call.instances[j]) = PathOf(call.instances[i])

FirstCollision(call) == Min({i \in DOMAIN call.instances : Collides(call, i)})

\* C2: When overwrite is false and the target file of an instance of the batch
\* already exists, the write raises FileExistsError at the first such
\* instance and returns no frame; it has saved the instances before that one
\* and no other, their files stay, and every other file is as it was.
C2_CollisionPolicy ==
    ( /\ Wrote(last)
      /\ ~last.forced
      /\ \E i \in DOMAIN last.instances : PathOf(last.instances[i]) \in DOMAIN last.before.files )
        => LET k == FirstCollision(last)
           IN  /\ last.raised = "FileExistsError"
               /\ last.at = k
               /\ last.df = NoTable
               /\ last.log = [i \in 1..(k - 1) |-> <<"save_as", PathOf(last.instances[i])>>]
               /\ \A i \in 1..(k - 1) :
                     files[PathOf(last.instances[i])] = save_as(last.instances[i])
               /\ DOMAIN files = DOMAIN last.before.files
                                   \cup {PathOf(last.instances[i]) : i \in 1..(k - 1)}
               /\ \A p \in DOMAIN last.before.files :
                     p \notin {PathOf(last.instances[i]) : i \in 1..(k - 1)}
                        => files[p] = last.before.files[p]

\* C2 witness: a batch of two whose second instance collides: the first was
\* saved and its file is in the output root after the failure
C2_Witness ==
    /\ Wrote(last)
    /\ ~last.forced
    /\ last.raised = "FileExistsError"
    /\ last.at = 2
    /\ PathOf(last.instances[2]) \in DOMAIN last.before.files
    /\ PathOf(last.instances[1]) \notin DOMAIN last.before.files
    /\ files[PathOf(last.instances[1])] = save_as(last.instances[1])

\* a frame without its FileSize column
WithoutFileSize(df) ==
    [columns |-> SelectSeq(df.columns, LAMBDA c : c # "FileSize"),
     rows |-> [i \in DOMAIN df.rows |->
                  [c \in DOMAIN df.rows[i] \ {"FileSize"} |-> df.rows[i][c]]]]

\* C5: For every batch, whenever the write of the batch by a client that is
\* not in dry-run mode succeeds, the frame a dry-run client returns for the
\* same batch has the same rows in the same order with the same values, and
\* the FileSize column only in the frame of the client that wrote.
C5_DryRunSameRows ==
    last.op = "_write_instances"
        => LET dry == write_instances(TRUE, last.before, last.instances, last.forced)
               wet == write_instances(FALSE, last.before, last.instances, last.forced)
           IN  /\ last.df = (IF dry_run THEN dry.df ELSE wet.df)
               /\ wet.raised = OK
                    => /\ dry.raised = OK
                       /\ dry.df = WithoutFileSize(wet.df)
                       /\ "FileSize" \notin Range(dry.df.columns)
                       /\ wet.df.columns = Append(dry.df.columns, "FileSize")
                       /\ Len(dry.df.rows) = Len(last.instances)

\* C5 witness: a write of two instances that the frame lists in another order
\* than the batch has succeeded
C5_Witness ==
    /\ Wrote(last)
    /\ last.raised = OK
    /\ Len(last.df.rows) = 2
    /\ last.df.rows[1]["SOPInstanceUID"] = last.instances[2].SOPInstanceUID
    /\ last.df.rows[2]["SOPInstanceUID"] = last.instances[1].SOPInstanceUID
    /\ last.instances[1].SOPInstanceUID # last.instances[2].SOPInstanceUID

----------------------------------------------------------------------------
(* Properties of the client operations, checked under Spec *)

DownloadOps ==
    {"download_series", "download_study",
     "search_and_download_studies", "search_and_download_series"}

BulkOps == {"search_and_download_studies", "search_and_download_series"}

\* the kinds of the entries of a log
Kinds(log) == {log[i][1] : i \in DOMAIN log}

\* the last call is a download, overwrite not forced, of at least one object,
\* whose retrieve requests succeeded, and the files of all its objects were
\* in the output root before it
Rerun ==
    /\ last.op \in DownloadOps
    /\ last.fail = 0
    /\ ~last.forced
    /\ last.instances # <<>>
    /\ Paths(last.instances) \subseteq DOMAIN last.before.files

\* C3 (as claimed): re-running a download whose objects already exist in the
\* output root, with overwrite not forced, completes without error and leaves
\* every existing file unchanged.
C3_RerunIsNoOp ==
    Rerun => /\ last.raised = OK
             /\ files = last.before.files

\* C3 (amended): a download whose objects already exist in the output root,
\* with overwrite not forced, leaves every existing file unchanged and adds
\* none; by a client that is not in dry-run mode it fails with
\* FileExistsError, returns no table, saves no instance and writes no CSV
\* summary; by a dry-run client it completes without error.
C3_RerunRaises ==
    Rerun => /\ files = last.before.files
             /\ csv = last.before.csv
             /\ "save_as" \notin Kinds(last.log)
             /\ "to_csv" \notin Kinds(last.log)
             /\ IF dry_run
                THEN last.raised = OK
                ELSE last.raised = "FileExistsError" /\ last.df = NoTable

\* C3 witness: download_series has been called for a series whose two files
\* an earlier call had written, and has raised FileExistsError
C3_Witness ==
    /\ Rerun
    /\ ~dry_run
    /\ last.op = "download_series"
    /\ Len(last.instances) = 2
    /\ last.raised = "FileExistsError"
    /\ \A i \in DOMAIN last.instances :
          PathOf(last.instances[i]) \in DOMAIN files

\* C4: A step of a client configured for dry-run, whichever of the six
\* operations it is, changes nothing on the filesystem: the output root is not
\* created, no series directory is created, no instance file is written and
\* no CSV summary is written.
C4_DryRunWritesNothing ==
    [][dry_run => UNCHANGED <<root, dirs, files, csv>>]_vars

\* C4 witness: a dry-run client has made two calls, the last of them a bulk
\* download that returned a table of four instances; the output root is
\* absent still
C4_Witness ==
    /\ dry_run
    /\ ncalls = 2
    /\ last.op = "search_and_download_series"
    /\ last.raised = OK
    /\ Len(last.df.rows) = 4
    /\ root = "absent"
    /\ dirs = {}
    /\ files = EmptyMap
    /\ csv = EmptyMap

\* the last call is a series search whose study search returned no study
ZeroStudies ==
    /\ last.op \in {"list_series", "search_and_download_series"}
    /\ last.studies = <<>>

\* C6 (as claimed): a series search whose study-level query returns zero
\* studies issues no per-study series sub-query and does not raise.
C6_ZeroStudiesShortCircuit ==
    ZeroStudies => /\ last.raised = OK
                   /\ "search_for_series" \notin Kinds(last.log)

\* the search step of the last call, a bulk download, returned a frame
\* without rows
EmptySearch ==
    /\ last.op \in BulkOps
    /\ last.found # NoTable
    /\ last.found.rows = <<>>

\* C7: When the search step of search_and_download_studies or of
\* search_and_download_series returns a frame without rows, the operation
\* returns None without an exception, after the search requests only: it
\* makes no retrieve call, saves no instance, writes no CSV summary and leaves
\* the filesystem as it was.
C7_EmptySearchReturns ==
    EmptySearch => /\ last.raised = OK
                   /\ last.df = NoTable
                   /\ Kinds(last.log) \subseteq {"search_for_studies", "search_for_series"}
                   /\ FS = last.before

\* C7 witness: search_and_download_series of a client that writes found two
\* studies, none of them with a matching series, and returned
C7_Witness ==
    /\ EmptySearch
    /\ ~dry_run
    /\ last.op = "search_and_download_series"
    /\ Len(last.studies) = 2
    /\ "search_for_series" \in Kinds(last.log)
    /\ last.raised = OK
    /\ root = last.before.root

\* the column an operation sorts its table by
SortColumn(op) ==
    CASE op = "list_studies" -> "StudyInstanceUID"
      [] op = "list_series" -> "SeriesInstanceUID"
      [] op \in DownloadOps -> "SOPInstanceUID"

\* the rows are in ascending order of the integer tuples of column by
Ascending(rows, by) ==
    \A i, j \in DOMAIN rows :
        i < j => ~LexLess(NumTuple(rows[j][by]), NumTuple(rows[i][by]))

\* C10: Every table an operation returns is in ascending order of the integer
\* tuples of its identifier: StudyInstanceUID for list_studies,
\* SeriesInstanceUID for list_series, SOPInstanceUID for the four downloads.
C10_TablesSorted ==
    (last.op \in DownloadOps \cup {"list_studies", "list_series"} /\ last.raised = OK)
        => Ascending(last.df.rows, SortColumn(last.op))

\* C10 witness: search_and_download_series has returned the four instances of
\* three series; the instance of the series found last is the first row, and
\* 3.9 comes before 3.10
C10_Witness ==
    /\ last.op = "search_and_download_series"
    /\ last.raised = OK
    /\ Len(last.found.rows) = 3
    /\ Len(last.df.rows) = 4
    /\ last.df.rows[1]["SeriesInstanceUID"] = last.found.rows[3]["SeriesInstanceUID"]
    /\ last.df.rows[3]["SOPInstanceUID"] = <<"3", ".", "9">>
    /\ last.df.rows[4]["SOPInstanceUID"] = <<"3", ".", "1", "0">>

----------------------------------------------------------------------------
(* Specification SearchSpec: one call of KheopsClient._query_series, with any
   filter set, fuzzy flag, limit and offset *)

\* the largest limit and offset of a search
MaxPage == 2

Requests ==
    {Request(f, z, l, o) : f \in {NoFilters, "PatientID"}, z \in BOOLEAN,
                           l \in {NoneInt} \cup 1..MaxPage,
                           o \in {NoneInt} \cup 0..(MaxPage - 1)}

SearchInit ==
    /\ dry_run = FALSE
    /\ root = "absent"
    /\ dirs = {}
    /\ files = EmptyMap
    /\ csv = EmptyMap
    /\ now = 0
    /\ ncalls = 0
    /\ last = NoCall
    /\ sortIn = NoSort

QuerySeries ==
    /\ last.op = "none"
    /\ \E req \in Requests, hits \in StudyAnswers :
         \E matched \in SUBSET StudiesOf(search_for_studies(req, hits)) :
            \E q \in {query_series(req, hits, matched)} :
               last' = [NoCall EXCEPT !.op = "_query_series", !.req = req,
                                      !.studies = search_for_studies(req, hits),
                                      !.matched = matched, !.raised = q.raised,
                                      !.df = q.df, !.found = q.df, !.log = q.log]
    /\ UNCHANGED <<dry_run, root, dirs, files, csv, now, ncalls, sortIn>>

SearchNext == QuerySeries

SearchSpec == SearchInit /\ [][SearchNext]_vars

----------------------------------------------------------------------------
(* Properties of the series search, checked under SearchSpec *)

\* the sub-queries of a log
SubQueries(log) == SelectSeq(log, LAMBDA e : e[1] = "search_for_series")

\* the series the server holds for the studies of the answer that have
\* matching series, whatever the page
SeriesOfMatched(call) ==
    {i \in DOMAIN SeriesList :
        /\ SeriesList[i].StudyInstanceUID \in StudiesOf(call.studies)
        /\ SeriesList[i].StudyInstanceUID \in call.matched}

\* C11: _query_series first searches the studies with the caller's filters,
\* fuzzy flag, limit and offset; then it issues one series search per study
\* of the answer, and no other, each with the caller's filters and fuzzy flag
\* and with limit None and offset None; when at least one study was found it
\* returns the rows of all these answers together: every matching series of
\* each study found, once. A limit of N so bounds the number of sub-queries
\* by N, and not the number of rows.
C11_FanOut ==
    last.op = "_query_series"
        => LET sub == SubQueries(last.log)
           IN  /\ last.log[1] = <<"search_for_studies", last.req>>
               /\ Len(last.log) = 1 + Len(sub)
               /\ Len(sub) = Len(last.studies)
               /\ {sub[i][2] : i \in DOMAIN sub} = StudiesOf(last.studies)
               /\ \A i \in DOMAIN sub :
                     sub[i][3] = Request(last.req.search_filters, last.req.fuzzy,
                                         NoneInt, NoneInt)
               /\ last.req.limit # NoneInt => Len(sub) <= last.req.limit
               /\ last.studies # <<>>
                    => /\ last.raised = OK
                       /\ Len(last.df.rows) = Cardinality(SeriesOfMatched(last))
                       /\ {last.df.rows[i]["SeriesInstanceUID"] : i \in DOMAIN last.df.rows}
                            = {SeriesList[i].SeriesInstanceUID : i \in SeriesOfMatched(last)}

\* C11 witness: a search with limit 1, of two studies that match, has fanned
\* out to one study and returned the two series of that study
C11_Witness ==
    /\ last.op = "_query_series"
    /\ last.req.limit = 1
    /\ last.req.offset = 0
    /\ Len(SubQueries(last.log)) = 1
    /\ last.raised = OK
    /\ Len(last.df.rows) = 2

----------------------------------------------------------------------------
(* Specification ConstructSpec: one construction of a KheopsClient, with any
   access_token argument and any value of ACCESS_TOKEN in the environment *)

\* the longest token
MaxTokenLen == 2

\* the tokens: None, the empty string and strings of up to MaxTokenLen
\* characters
Tokens ==
    {None} \cup UNION {[1..n -> {"a", "b"}] : n \in 0..MaxTokenLen}

ConstructInit ==
    /\ dry_run = FALSE
    /\ root = "absent"
    /\ dirs = {}
    /\ files = EmptyMap
    /\ csv = EmptyMap
    /\ now = 0
    /\ ncalls = 0
    /\ last = NoCall
    /\ sortIn = NoSort

Construct ==
    /\ last.op = "none"
    /\ \E access_token \in Tokens, environ \in Tokens, dry \in BOOLEAN :
         \E r \in {init(access_token, environ, dry)} :
            /\ last' = [NoCall EXCEPT !.op = "__init__", !.access_token = access_token,
                                      !.environ = environ, !.raised = r.raised,
                                      !.code = r.code, !.client = r.client,
                                      !.log = r.log]
            /\ dry_run' = r.client.dry_run
    /\ UNCHANGED <<root, dirs, files, csv, now, ncalls, sortIn>>

ConstructNext == Construct

ConstructSpec == ConstructInit /\ [][ConstructNext]_vars

----------------------------------------------------------------------------
(* Properties of the construction, checked under ConstructSpec *)

\* the token a construction ends up with: the argument, or the environment's
\* when the argument is None
Supplied(call) ==
    IF call.access_token = None THEN call.environ ELSE call.access_token

\* the requests to the repository
Requested ==
    {"search_for_studies", "search_for_series", "retrieve_series", "retrieve_study"}

\* C12: A construction reads ACCESS_TOKEN exactly when the access_token
\* argument is None. When the token that results is None or empty it prints
\* the error and exits with code 1, having created no DICOMwebClient and made
\* no request; otherwise the client is created with that token.
C12_TokenCheck ==
    last.op = "__init__"
        => /\ ("getenv" \in Kinds(last.log)) <=> (last.access_token = None)
           /\ IF Supplied(last) = None \/ Supplied(last) = <<>>
              THEN /\ last.raised = "SystemExit"
                   /\ last.code # 0
                   /\ "print" \in Kinds(last.log)
                   /\ "DICOMwebClient" \notin Kinds(last.log)
                   /\ Kinds(last.log) \cap Requested = {}
                   /\ last.client = NoClient
                   /\ Last(last.log)[1] = "exit"
              ELSE /\ last.raised = OK
                   /\ last.client.token = Supplied(last)
                   /\ Kinds(last.log) \cap Requested = {}

\* C12 witness: a construction with the empty string as access_token, with a
\* token in the environment, has exited without reading the environment
C12_Witness ==
    /\ last.op = "__init__"
    /\ last.access_token = <<>>
    /\ last.environ = <<"a", "b">>
    /\ last.raised = "SystemExit"
    /\ "getenv" \notin Kinds(last.log)

----------------------------------------------------------------------------
(* Properties of the operations on an invalid output root, checked under
   Spec *)

\* the last call is a download with at least one object to write, by a client
\* that writes, on an output root that exists as a regular file
InvalidRoot ==
    /\ last.op \in DownloadOps
    /\ ~dry_run
    /\ last.instances # <<>>
    /\ last.before.root = "file"

\* C13 (as claimed): a download on an output root that is not a directory
\* fails before any retrieve call is issued and before any file is written.
C13_InvalidRootFirst ==
    InvalidRoot => /\ last.raised # OK
                   /\ Kinds(last.log) \cap {"retrieve_series", "retrieve_study"} = {}
                   /\ "save_as" \notin Kinds(last.log)
                   /\ files = last.before.files

----------------------------------------------------------------------------
(* Further properties of the Output Writer, checked under WriterSpec *)

\* C14: After a write of a batch with pairwise distinct identifiers, by a
\* client that is not in dry-run mode, that succeeded, the frame returned has
\* one row per instance of the batch and no other; the file of each instance
\* is in the output root at <SeriesInstanceUID>/<SOPInstanceUID>.dcm, its
\* series directory exists, and the FileSize of its row is the size of that
\* file as it is after the write.
C14_RowPerFile ==
    (Wrote(last) /\ last.raised = OK /\ Distinct(last.instances))
        => /\ root = "dir"
           /\ Len(last.df.rows) = Len(last.instances)
           /\ \A i \in DOMAIN last.instances :
                 LET inst == last.instances[i]
                     path == <<inst.SeriesInstanceUID, inst.SOPInstanceUID>>
                 IN  /\ path \in DOMAIN files
                     /\ inst.SeriesInstanceUID \in dirs
                     /\ Cardinality(RowsOf(last.df, inst)) = 1
                     /\ \A k \in RowsOf(last.df, inst) :
                           /\ last.df.rows[k]["FileSize"] = Len(files[path])
                           /\ last.df.rows[k]["SeriesInstanceUID"] = inst.SeriesInstanceUID

\* C14 witness: two instances of two series, with their bulk data, have been
\* written into an output root that did not exist
C14_Witness ==
    /\ Wrote(last)
    /\ ~last.forced
    /\ last.raised = OK
    /\ last.before.root = "absent"
    /\ Len(last.instances) = 2
    /\ last.instances[1].SeriesInstanceUID # last.instances[2].SeriesInstanceUID
    /\ \A i \in DOMAIN last.instances :
          /\ PathOf(last.instances[i]) \in DOMAIN files
          /\ last.instances[i].PixelData # <<>>
    /\ \A k \in DOMAIN last.df.rows : last.df.rows[k]["FileSize"] = 7

----------------------------------------------------------------------------
(* Specification FrameSpec: one call of dicoms_to_frame, with any list of
   keywords without repetition (or None) and any list of datasets, each of
   which holds any of the elements *)

\* the longest list of datasets
MaxRecords == 2

Keywords == {"PatientID", "Modality", "SeriesDate"}

\* the lists of keywords without repetition
KeywordLists ==
    {kw \in UNION {[1..n -> Keywords] : n \in 0..Cardinality(Keywords)} :
        \A i, j \in DOMAIN kw : kw[i] = kw[j] => i = j}

\* the values of an element
ValuesOf(k) == IF k = "PatientID" THEN {<<"7">>, <<"8">>} ELSE {<<"x">>}

\* the datasets: any subset of the elements, with any values
Records ==
    UNION {{d \in [S -> UNION {ValuesOf(k) : k \in Keywords}] :
               \A k \in S : d[k] \in ValuesOf(k)} : S \in SUBSET Keywords}

FrameInit ==
    /\ dry_run = FALSE
    /\ root = "absent"
    /\ dirs = {}
    /\ files = EmptyMap
    /\ csv = EmptyMap
    /\ now = 0
    /\ ncalls = 0
    /\ last = NoCall
    /\ sortIn = NoSort

FrameCall ==
    /\ last.op = "none"
    /\ \E keywords \in KeywordLists \cup {None} :
         \E dicoms \in UNION {[1..n -> Records] : n \in 0..MaxRecords} :
            last' = [NoCall EXCEPT !.op = "dicoms_to_frame", !.keywords = keywords,
                                   !.instances = dicoms,
                                   !.df = dicoms_to_frame(dicoms, keywords)]
    /\ UNCHANGED <<dry_run, root, dirs, files, csv, now, ncalls, sortIn>>

FrameNext == FrameCall

FrameSpec == FrameInit /\ [][FrameNext]_vars

----------------------------------------------------------------------------
(* Properties of dicoms_to_frame, checked under FrameSpec *)

\* the last call is dicoms_to_frame with a list of keywords
Framed == last.op = "dicoms_to_frame" /\ last.keywords # None

\* the frame has the requested columns in the requested order, one row per
\* dataset in the order of the datasets, and in each row the value of each
\* element the dataset holds and None for each it lacks
RowPerRecord ==
    /\ last.df.columns = last.keywords
    /\ Len(last.df.rows) = Len(last.instances)
    /\ \A i \in DOMAIN last.df.rows :
          /\ DOMAIN last.df.rows[i] = {last.keywords[j] : j \in DOMAIN last.keywords}
          /\ \A k \in DOMAIN last.df.rows[i] :
                last.df.rows[i][k] = IF k \in DOMAIN last.instances[i]
                                     THEN last.instances[i][k] ELSE None

\* C15 (as claimed): for every list of keywords and every list of datasets the
\* frame has the requested columns in order and one row per dataset in order,
\* with None for a missing element.
C15_FrameOfRecords == Framed => RowPerRecord

\* C15 (amended): for every list of keywords that is not empty and every list
\* of datasets the frame has the requested columns in order and one row per
\* dataset in order, with None for a missing element; for the empty list of
\* keywords the frame has no columns and no rows, however many datasets there
\* are.
C15_FrameOfRecordsNonEmpty ==
    Framed => IF last.keywords # <<>>
              THEN RowPerRecord
              ELSE last.df.columns = <<>> /\ last.df.rows = <<>>

\* C15 witness: three keywords and a dataset that holds the first of them only
C15_Witness ==
    /\ Framed
    /\ last.keywords = <<"PatientID", "Modality", "SeriesDate">>
    /\ Len(last.instances) = 2
    /\ DOMAIN last.instances[2] = {"PatientID"}
    /\ last.df.rows[2]["PatientID"] = <<"7">>
    /\ last.df.rows[2]["Modality"] = None
    /\ last.df.rows[2]["SeriesDate"] = None

----------------------------------------------------------------------------
(* Specification SummarySpec: one call of _print_table_summary, on a frame of
   studies, of series or of instances (without FileSize, as a dry-run client
   has it, or with), with any rows *)

\* the most rows of a summarised frame
MaxSummaryRows == 3

\* the values of the ModalitiesInStudy element
StudyModalities ==
    {None, <<"C", "T">>, <<"X", "A">>,
     MultiValue(<<<<"C", "T">>, <<"X", "A">>>>),
     MultiValue(<<<<"M", "R">>, <<"C", "T">>>>)}

StudyRows ==
    [StudyInstanceUID : {StudyA, StudyB}, ModalitiesInStudy : StudyModalities]

SeriesRows ==
    [StudyInstanceUID : {StudyA}, SeriesInstanceUID : {SeriesA1, SeriesB1},
     Modality : {None, <<"C", "T">>, <<"M", "R">>}]

InstanceRows ==
    [StudyInstanceUID : {StudyA}, SeriesInstanceUID : {SeriesA1, SeriesB1},
     SOPInstanceUID : {<<"3", ".", "9">>, <<"3", ".", "1", "0">>},
     Modality : {<<"C", "T">>, <<"X", "A">>}]

\* the instance rows with the size of their files
WithFileSize(row) == ("FileSize" :> 5 + Len(row["Modality"])) @@ row

FramesOf(columns, Rows, most) ==
    {[columns |-> columns, rows |-> rows] :
        rows \in UNION {[1..n -> Rows] : n \in 0..most}}

SummaryFrames ==
    FramesOf(<<"StudyInstanceUID", "ModalitiesInStudy">>, StudyRows, MaxSummaryRows)
    \cup FramesOf(<<"StudyInstanceUID", "SeriesInstanceUID", "Modality">>, SeriesRows,
                  MaxSummaryRows - 1)
    \cup FramesOf(<<"StudyInstanceUID", "SeriesInstanceUID", "SOPInstanceUID", "Modality">>,
                  InstanceRows, MaxSummaryRows - 1)
    \cup FramesOf(<<"StudyInstanceUID", "SeriesInstanceUID", "SOPInstanceUID", "Modality",
                    "FileSize">>,
                  {WithFileSize(row) : row \in InstanceRows}, MaxSummaryRows - 1)

SummaryInit ==
    /\ dry_run = FALSE
    /\ root = "absent"
    /\ dirs = {}
    /\ files = EmptyMap
    /\ csv = EmptyMap
    /\ now = 0
    /\ ncalls = 0
    /\ last = NoCall
    /\ sortIn = NoSort

PrintTableSummary ==
    /\ last.op = "none"
    /\ \E df \in SummaryFrames :
         \E r \in {print_table_summary(df)} :
            last' = [NoCall EXCEPT !.op = "_print_table_summary", !.found = df,
                                   !.raised = r.raised, !.log = r.lines]
    /\ UNCHANGED <<dry_run, root, dirs, files, csv, now, ncalls, sortIn>>

SummaryNext == PrintTableSummary

SummarySpec == SummaryInit /\ [][SummaryNext]_vars

----------------------------------------------------------------------------
(* Properties of the summary, checked under SummarySpec *)

Summarised == last.op = "_print_table_summary"

\* the identifiers of a column of the summarised frame, None apart
Identifiers(name) ==
    IF name \in Range(last.found.columns)
    THEN {last.found.rows[i][name] : i \in DOMAIN last.found.rows} \ {None}
    ELSE {}

\* the line of a label is printed with value n when n is positive, and not
\* printed when n is zero
PrintedIffPositive(label, n) ==
    IF n > 0
    THEN \E i \in DOMAIN last.log : last.log[i] = <<label, n>>
    ELSE label \notin Kinds(last.log)

\* C16 (as claimed): the summary reports the distinct counts of the study,
\* series and instance identifiers of the table, and omits each of the three
\* whose count is zero, the study count included.
C16_ZeroCountsOmitted ==
    (Summarised /\ last.raised = OK)
        => /\ PrintedIffPositive("Total number of studies",
                                 Cardinality(Identifiers("StudyInstanceUID")))
           /\ PrintedIffPositive("Total number of series",
                                 Cardinality(Identifiers("SeriesInstanceUID")))
           /\ PrintedIffPositive("Total number of instances",
                                 Cardinality(Identifiers("SOPInstanceUID")))

\* the modalities of the summarised frame: the values of the Modality column
\* and, of the ModalitiesInStudy column, the scalar values and the values
\* inside the multi-valued ones
ModalitiesPresent ==
    {m \in {<<"C", "T">>, <<"M", "R">>, <<"X", "A">>, None} :
        \/ \E i \in DOMAIN last.found.rows :
              /\ "Modality" \in DOMAIN last.found.rows[i]
              /\ last.found.rows[i]["Modality"] = m
        \/ \E i \in DOMAIN last.found.rows :
              /\ "ModalitiesInStudy" \in DOMAIN last.found.rows[i]
              /\ LET x == last.found.rows[i]["ModalitiesInStudy"]
                 IN  IF x[1] = "MultiValue"
                     THEN \E j \in 2..Len(x) : x[j] = m
                     ELSE x = m}

\* the strings of a list are in strictly ascending order of their characters
StrictlyAscending(list) ==
    \A i, j \in DOMAIN list :
        i < j => \E k \in 1..Len(list[i]) :
                    /\ \A h \in 1..(k - 1) : list[i][h] = list[j][h]
                    /\ ord(list[i][k]) < ord(list[j][k])

\* C17: When no modality of the table is null, the summary does not raise and
\* its modality line lists, in ascending order and each once, the modalities
\* that occur as the Modality of a row, as a scalar ModalitiesInStudy or
\* inside a multi-valued ModalitiesInStudy; without any modality the line is
\* not printed.
C17_ModalityList ==
    (Summarised /\ None \notin ModalitiesPresent)
        => /\ last.raised = OK
           /\ IF ModalitiesPresent = {}
              THEN "Modalities" \notin Kinds(last.log)
              ELSE LET line == Last(last.log)
                   IN  /\ line[1] = "Modalities"
                       /\ {line[2][i] : i \in DOMAIN line[2]} = ModalitiesPresent
                       /\ Len(line[2]) = Cardinality(ModalitiesPresent)
                       /\ StrictlyAscending(line[2])

\* C17 witness: the studies with ModalitiesInStudy ["CT", "XA"], "CT" and
\* ["MR", "CT"] have been summarised as CT, MR, XA
C17_Witness ==
    /\ Summarised
    /\ Len(last.found.rows) = 3
    /\ last.found.rows[1]["ModalitiesInStudy"] = MultiValue(<<<<"C", "T">>, <<"X", "A">>>>)
    /\ last.found.rows[2]["ModalitiesInStudy"] = <<"C", "T">>
    /\ last.found.rows[3]["ModalitiesInStudy"] = MultiValue(<<<<"M", "R">>, <<"C", "T">>>>)
    /\ last.raised = OK
    /\ Last(last.log) = <<"Modalities", <<<<"C", "T">>, <<"M", "R">>, <<"X", "A">>>>>>

----------------------------------------------------------------------------
(* The order of the requests and the writes of a bulk download, checked under
   Spec *)

RetrieveKinds == {"retrieve_series", "retrieve_study"}

\* the number of retrieve requests among the first i entries of the log of
\* the last call
RetrievesUpTo(i) ==
    Cardinality({h \in 1..i : last.log[h][1] \in RetrieveKinds})

\* the number of retrieve requests the last call issued
NRetrieves == RetrievesUpTo(Len(last.log))

\* the place of the j-th retrieve request in the log of the last call
RetrieveAt(j) ==
    CHOOSE i \in DOMAIN last.log :
        last.log[i][1] \in RetrieveKinds /\ RetrievesUpTo(i) = j

\* the place in the log where the work for the j-th retrieved row ends: the
\* next retrieve request, or the end of the log
RowEnd(j) == IF j < NRetrieves THEN RetrieveAt(j + 1) ELSE Len(last.log) + 1

\* the retrieve request a bulk download issues for row k of its search frame
RowRetrieve(k) ==
    LET row == last.found.rows[k]
    IN  IF last.op = "search_and_download_series"
        THEN <<"retrieve_series", row["StudyInstanceUID"], row["SeriesInstanceUID"]>>
        ELSE <<"retrieve_study", row["StudyInstanceUID"]>>

\* the instances the server returns for row k of the search frame
RowInstances(k) ==
    LET row == last.found.rows[k]
    IN  IF last.op = "search_and_download_series"
        THEN retrieve_series(row["StudyInstanceUID"], row["SeriesInstanceUID"],
                             last.meta_only)
        ELSE retrieve_study(row["StudyInstanceUID"], last.meta_only)

\* the paths saved between the j-th retrieve request and the end of its row
SavedInRow(j) ==
    {last.log[i][2] : i \in {h \in (RetrieveAt(j) + 1)..(RowEnd(j) - 1) :
                                last.log[h][1] = "save_as"}}

\* row k has an instance whose file was in the output root before the call
RowCollides(k) == Paths(RowInstances(k)) \cap DOMAIN last.before.files # {}

\* a bulk download that found at least one row
BulkDownload == last.op \in BulkOps /\ last.found.rows # <<>>

\* C18: A bulk download is sequential and fail-fast. The j-th retrieve request
\* it issues is the request for row j of the sorted search frame, one request
\* per row; between the request for a row and the request for the next row
\* there are only the saves of that row's instances, all of them (client not
\* in dry-run mode). When the call returns, every row was retrieved. When the
\* retrieve request of row k fails the call raises that error with the failed
\* request as its last step; when a row has an instance whose file already
\* exists (overwrite not forced, client not in dry-run mode, output root a
\* directory or absent) the call raises FileExistsError in the first such row,
\* unless an earlier retrieve failed. When the call raises, no request was
\* issued for a row after the failing one, no table is returned, no CSV
\* summary is written, and the files of the rows before the failing one are
\* in the output root.
C18_SequentialFailFast ==
    BulkDownload =>
        LET rows == last.found.rows
            m == NRetrieves
        IN  /\ m <= Len(rows)
            /\ \A j \in 1..m : last.log[RetrieveAt(j)] = RowRetrieve(j)
            /\ \A j \in 1..(m - 1) :
                  /\ \A i \in (RetrieveAt(j) + 1)..(RowEnd(j) - 1) :
                        last.log[i][1] = "save_as"
                  /\ ~dry_run => SavedInRow(j) = Paths(RowInstances(j))
            /\ last.raised = OK => m = Len(rows)
            /\ last.raised = "HTTPError" <=>
                  (last.fail # 0 /\ m = last.fail /\ RetrieveAt(m) = Len(last.log))
            /\ \A k \in DOMAIN rows :
                  ( /\ ~dry_run /\ ~last.forced /\ last.before.root # "file"
                    /\ RowCollides(k)
                    /\ \A j \in 1..(k - 1) : ~RowCollides(j)
                    /\ last.fail \notin 1..k )
                  => last.raised = "FileExistsError" /\ m = k
            /\ last.raised # OK =>
                  /\ last.df = NoTable
                  /\ "to_csv" \notin Kinds(last.log)
                  /\ csv = last.before.csv
                  /\ ~dry_run =>
                        \A j \in 1..(m - 1) :
                            Paths(RowInstances(j)) \subseteq DOMAIN files

\* C18 witness: search_and_download_studies found two studies; the files of
\* the first were written, the retrieve request of the second failed, and the
\* call raised its error
C18_Witness ==
    /\ BulkDownload
    /\ ~dry_run
    /\ last.op = "search_and_download_studies"
    /\ Len(last.found.rows) = 2
    /\ last.fail = 2
    /\ last.raised = "HTTPError"
    /\ NRetrieves = 2
    /\ Paths(RowInstances(1)) # {}
    /\ Paths(RowInstances(1)) \cap DOMAIN last.before.files = {}
    /\ Paths(RowInstances(1)) \subseteq DOMAIN files
    /\ Paths(RowInstances(2)) \cap DOMAIN files = {}

----------------------------------------------------------------------------
(* The CSV summary of a download, checked under Spec *)

\* the places of the log of the last call where a CSV summary is written
CsvWrites == {i \in DOMAIN last.log : last.log[i][1] = "to_csv"}

\* the paths the last call saved an instance to
Saved == {last.log[i][2] : i \in {h \in DOMAIN last.log : last.log[h][1] = "save_as"}}

\* C19: In every download operation, single or bulk, the CSV summary is
\* written only after every object of the operation has been written: when
\* the call writes a CSV summary, that is its last step and the only such
\* write, the call has not raised, every object it retrieved has been saved
\* and its file is in the output root. A call that raises, on a collision, a
\* failed retrieve or anything else, writes no CSV summary and leaves the CSV
\* summaries as they were, and the files it wrote before the failure stay.
C19_CsvAfterAllWritten ==
    last.op \in DownloadOps =>
        /\ CsvWrites # {} =>
              /\ CsvWrites = {Len(last.log)}
              /\ last.raised = OK
              /\ ~dry_run
              /\ Saved = Paths(last.instances)
              /\ Paths(last.instances) \subseteq DOMAIN files
              /\ last.log[Len(last.log)][2] \in DOMAIN csv
              /\ csv[last.log[Len(last.log)][2]] = last.df
        /\ CsvWrites = {} => csv = last.before.csv
        /\ last.raised # OK =>
              /\ CsvWrites = {}
              /\ csv = last.before.csv
              /\ Saved \subseteq DOMAIN files
              /\ DOMAIN last.before.files \subseteq DOMAIN files

\* C19 witness: a download of more than one object has saved an object, then
\* met a file that existed, and raised FileExistsError; the file it wrote is
\* in the output root and no CSV summary has been added
C19_Witness ==
    /\ last.op \in DownloadOps
    /\ ~dry_run
    /\ last.raised = "FileExistsError"
    /\ Saved # {}
    /\ Saved \cap DOMAIN last.before.files = {}
    /\ Saved \subseteq DOMAIN files
    /\ CsvWrites = {}
    /\ csv = last.before.csv

----------------------------------------------------------------------------
(* A batch that holds an object twice, checked under WriterSpec *)

\* the last call wrote, overwrite false, a batch in which two objects have the
\* same series and instance identifiers, into an output root that held none
\* of the files of the batch
DuplicateInBatch ==
    /\ Wrote(last)
    /\ ~last.forced
    /\ last.before.root # "file"
    /\ ~Distinct(last.instances)
    /\ Paths(last.instances) \cap DOMAIN last.before.files = {}

\* C20: When a batch written with overwrite false contains two objects with
\* the same series identifier and the same instance identifier, and the
\* output root held none of the files of the batch (it may have been empty),
\* the write raises FileExistsError at the second of them and returns no
\* frame; the file written for the first of them remains with the content
\* saved for the first, as do the files of the objects before the second.
C20_DuplicateInBatch ==
    DuplicateInBatch =>
        LET k == FirstCollision(last)
            first == CHOOSE j \in 1..(k - 1) :
                        PathOf(last.instances[j]) = PathOf(last.instances[k])
        IN  /\ last.raised = "FileExistsError"
            /\ last.at = k
            /\ last.df = NoTable
            /\ PathOf(last.instances[k]) \in DOMAIN files
            /\ files[PathOf(last.instances[k])] = save_as(last.instances[first])
            /\ DOMAIN files = DOMAIN last.before.files
                                \cup {PathOf(last.instances[i]) : i \in 1..(k - 1)}

\* C20 witness: a batch of the same object twice has been written into an
\* empty output root; the second raised FileExistsError and the file of the
\* first is the only file there
C20_Witness ==
    /\ DuplicateInBatch
    /\ last.before.files = EmptyMap
    /\ Len(last.instances) = 2
    /\ last.instances[1] = last.instances[2]
    /\ last.raised = "FileExistsError"
    /\ last.at = 2
    /\ DOMAIN files = {PathOf(last.instances[1])}

----------------------------------------------------------------------------
(* The name of the CSV summary, checked under Spec *)

\* the label an operation hands to _write_table
LabelOf(op) ==
    CASE op = "list_studies" -> "available_studies"
      [] op = "list_series" -> "available_series"
      [] op \in {"download_series", "search_and_download_series"}
            -> "downloaded_series_instances"
      [] op \in {"download_study", "search_and_download_studies"}
            -> "downloaded_study_instances"
      [] OTHER -> "none"

\* a call ended with the write of a CSV summary
CsvWritten(call) ==
    call.log # <<>> /\ call.log[Len(call.log)][1] = "to_csv"

\* the name of the CSV summary a call wrote
CsvWrittenAs(call) == call.log[Len(call.log)][2]

\* C21: The name of a CSV summary depends only on the label and the second of
\* the wall clock: a call that writes a summary writes it under the name made
\* of the label of its operation and the current second, does not raise, and
\* the summaries afterwards are those before with the frame of the call under
\* that name. So when the call before it wrote a summary with the same label
\* in the same second, the two names are equal, and the later write replaces
\* the earlier summary: no file is added, and the file holds the later frame.
C21_SameSecondSameName ==
    [][ (ncalls' = ncalls + 1 /\ CsvWritten(last'))
          => LET name == CsvWrittenAs(last')
             IN  /\ name = CsvName(LabelOf(last'.op), now)
                 /\ last'.raised = OK
                 /\ ~dry_run
                 /\ csv' = (name :> last'.df) @@ csv
                 /\ ( /\ CsvWritten(last)
                      /\ LabelOf(last.op) = LabelOf(last'.op)
                      /\ CsvWrittenAs(last) = CsvName(LabelOf(last.op), now) )
                    => /\ CsvWrittenAs(last) = name
                       /\ DOMAIN csv' = DOMAIN csv
                       /\ csv'[name] = last'.df
      ]_vars

\* C21 witness: a call has written its CSV summary under a name under which
\* an earlier call of another operation with the same label, in the same
\* second, had written another frame; the file now holds the later frame
C21_Witness ==
    /\ ~dry_run
    /\ last.op = "search_and_download_series"
    /\ CsvWritten(last)
    /\ last.raised = OK
    /\ CsvWrittenAs(last) \in DOMAIN last.before.csv
    /\ last.before.csv[CsvWrittenAs(last)] # last.df
    /\ DOMAIN csv = DOMAIN last.before.csv
    /\ csv[CsvWrittenAs(last)] = last.df

----------------------------------------------------------------------------
(* Specification IncompleteSpec: a search (list_studies) and a write
   (_write_instances) on records in which the identifier of the sort column
   can be absent, by clients constructed with either value of dry_run, on an
   output root that starts absent, as an empty directory, or as a regular
   file *)

\* the record d without the element keyword
Without(d, keyword) == [k \in DOMAIN d \ {keyword} |-> d[k]]

\* the studies the server answers with: those of the repository, and the same
\* without their StudyInstanceUID
IncompleteStudies ==
    Range(StudyList) \cup {Without(d, "StudyInstanceUID") : d \in Range(StudyList)}

\* the instances of the batches: two instances of the repository with their
\* bulk data, and the same without their SOPInstanceUID
IncompleteDatasets ==
    LET complete == {Materialize(Repository[i], FALSE) : i \in {2, 3}}
    IN  complete \cup {Without(d, "SOPInstanceUID") : d \in complete}

IncompleteInit ==
    /\ dry_run \in BOOLEAN
    /\ root \in {"absent", "dir", "file"}
    /\ dirs = {}
    /\ files = EmptyMap
    /\ csv = EmptyMap
    /\ now = 0
    /\ ncalls = 0
    /\ last = NoCall
    /\ sortIn = NoSort

ListStudiesIncomplete ==
    \E hits \in UNION {[1..n -> IncompleteStudies] : n \in 1..MaxIncomplete} :
      \E r \in {list_studies(dry_run, FS, now, DefaultRequest, hits)} :
         /\ root' = r.root
         /\ dirs' = r.dirs
         /\ files' = r.files
         /\ csv' = r.csv
         /\ last' = [NoCall EXCEPT !.op = "list_studies",
                                   !.studies = search_for_studies(DefaultRequest, hits),
                                   !.before = FS,
                                   !.raised = r.raised,
                                   !.df = r.df,
                                   !.found = r.found,
                                   !.log = r.log]
         /\ UNCHANGED <<dry_run, now, ncalls, sortIn>>

WriteInstancesIncomplete ==
    \E forced \in BOOLEAN :
      \E instances \in UNION {[1..n -> IncompleteDatasets] : n \in 1..MaxIncomplete} :
        \E r \in {write_instances(dry_run, FS, instances, forced)} :
            /\ root' = r.root
            /\ dirs' = r.dirs
            /\ files' = r.files
            /\ last' = [NoCall EXCEPT !.op = "_write_instances",
                                      !.instances = instances,
                                      !.forced = forced,
                                      !.before = FS,
                                      !.raised = r.raised,
                                      !.at = r.at,
                                      !.df = r.df,
                                      !.log = r.log]
            /\ UNCHANGED <<dry_run, csv, now, ncalls, sortIn>>

IncompleteNext ==
    \/ ListStudiesIncomplete
    \/ WriteInstancesIncomplete

IncompleteSpec == IncompleteInit /\ [][IncompleteNext]_vars

----------------------------------------------------------------------------
(* A null identifier in the sort column, checked under IncompleteSpec *)

\* the frame dicoms_to_frame makes of the records of the last call, before
\* the sort
Normalized ==
    IF last.op = "list_studies"
    THEN dicoms_to_frame(last.studies, STUDY_KEYS)
    ELSE dicoms_to_frame(last.instances, INSTANCE_KEYS)

\* the column the last call sorts its frame by
SortedBy == IF last.op = "list_studies" THEN "StudyInstanceUID" ELSE "SOPInstanceUID"

\* the normalized frame of the last call has a row whose identifier in the
\* sort column is null
NullIdentifier ==
    /\ last.op \in {"list_studies", "_write_instances"}
    /\ \E i \in DOMAIN Normalized.rows : Normalized.rows[i][SortedBy] = None

\* C22: A search or a write whose normalized frame holds a row with a null
\* identifier in the sort column (the element was absent from the record)
\* raises in the sort step, sort_frame_by_uid raising AttributeError where it
\* splits the identifier: the operation returns no table, and it saves no
\* instance, writes no CSV summary and leaves the output root as it was, in
\* dry-run mode and not, also when other rows of the frame are complete.
C22_NullIdentifierRaises ==
    NullIdentifier =>
        /\ last.raised = "AttributeError"
        /\ last.df = NoTable
        /\ Kinds(last.log) \cap {"save_as", "to_csv"} = {}
        /\ root = last.before.root
        /\ dirs = last.before.dirs
        /\ files = last.before.files
        /\ csv = last.before.csv

\* C22 witness: a batch of a complete instance and an instance without
\* SOPInstanceUID has been handed to the writer of a client that is not in
\* dry-run mode, with an output directory that exists; the call raised in the
\* sort and not even the complete instance was saved
C22_Witness ==
    /\ NullIdentifier
    /\ ~dry_run
    /\ last.op = "_write_instances"
    /\ last.before.root = "dir"
    /\ Len(last.instances) = 2
    /\ "SOPInstanceUID" \in DOMAIN last.instances[1]
    /\ "SOPInstanceUID" \notin DOMAIN last.instances[2]
    /\ last.raised = "AttributeError"
    /\ last.df = NoTable
    /\ PathOf(last.instances[1]) \notin DOMAIN files

====
